---------------------------- MODULE Spec2Model ----------------------------
(***************************************************************************)
(* Model of the hardware-offload cost-decision engine that lives in        *)
(* src/src/backend/tcop/postgres.c: the query feature extractor, the query *)
(* classifier, the hardware cost estimator, the adaptive CPU cost model    *)
(* (adjust_range / add_new_data) and the worker loop of PostgresMain that  *)
(* drives them.                                                            *)
(*                                                                         *)
(* Units.  Sizes ("data_num", thousands of rows in the source) are stored  *)
(* as rows / 2, so that every seeded size is an integer that fits 32 bits. *)
(* Times (ms in the source) are stored in units of 0.01 ms, truncated.     *)
(* Error rates (percent in the source) are stored in units of 0.001 %.     *)
(* Database sizes (bytes in the source) are stored in pages of PAGE_SIZE   *)
(* bytes; latencies of the hardware estimator in microseconds.             *)
(***************************************************************************)
EXTENDS Integers, Sequences, FiniteSets, TLC

(***************************************************************************)
(* #defines of postgres.c                                                  *)
(***************************************************************************)
NONE == 0

SELECT == 1
FROM == 2
WHERE == 3
GROUP_BY == 4
ORDER_BY == 5
AS == 6

LINREGR == 1
LOGREGR == 2
SVM == 3
MLP == 4
TREE == 5
\* FOREST is #defined twice: as 6 among the operations (line 261) and as 2
\* among the datasets (line 303).  The second definition is the one in
\* effect at every use of the macro, hw_ophashmap (line 585) included.
FOREST == 2

COUNT == 1
MAX == 2
MIN == 3
AVG == 4
SUM == 5

LARGER == 1
LARGERSAME == 2
SAME == 3
SMALLER == 4
SMALLERSAME == 5

Q1 == 0
Q2 == 1
Q3 == 2
Q4 == 3
Q5 == 4
Q6 == 5
Q7 == 6
Q8 == 7
Q9 == 8
Q10 == 9
Q11 == 10

HIGGS == 1
WILT == 4
HABERMAN == 8

QUERYNUM == 11
DATASIZE == 50
EXEC_ORDER == 3
ADJ_MIN_DATANUM == 3

NULL == "NULL"

QueryClasses == Q1..Q11

(***************************************************************************)
(* Query Feature Extractor                                                 *)
(***************************************************************************)

\* The delimiter set of the two strtok calls of sw_stack_for_hw.
Delimiters == {" ", ",", "(", ")", "[", "]", ";", "\n", "'"}

\* A query string is a sequence of lexemes: a lexeme is one delimiter
\* character or one maximal run of non-delimiter characters (a word).
IsDelim(c) == c \in Delimiters

\* A strtok that skips one delimiter only, not a run of them.
SkipOneDelim(s, p) ==
    IF p <= Len(s) /\ IsDelim(s[p]) THEN p + 1 ELSE p

\* strtok: skip the delimiters in front of position p (1-based).
RECURSIVE SkipDelims(_, _)
SkipDelims(s, p) ==
    IF p <= Len(s) /\ IsDelim(s[p]) THEN SkipDelims(s, p + 1) ELSE p

\* The loop of sw_stack_for_hw that fills word_array: the next token starts
\* at the first non-delimiter and ends at the next delimiter.
RECURSIVE TokenizeFrom(_, _, _)
TokenizeFrom(s, p, acc) ==
    LET q == SkipDelims(s, p)
    IN  IF q > Len(s) THEN acc
        ELSE TokenizeFrom(s, q + 1, Append(acc, s[q]))

Tokenize(s) == TokenizeFrom(s, 1, << >>)

hw_strcmp(str1, str2) == str1 = str2

hw_queryhashmap(str, query_cluster) ==
    IF hw_strcmp(str, "SELECT") THEN SELECT
    ELSE IF hw_strcmp(str, "FROM") THEN FROM
    ELSE IF hw_strcmp(str, "WHERE") THEN WHERE
    ELSE IF hw_strcmp(str, "GROUP_BY") THEN GROUP_BY
    ELSE IF hw_strcmp(str, "ORDER_BY") THEN ORDER_BY
    ELSE IF hw_strcmp(str, "AS") THEN AS
    ELSE query_cluster

\* hw_ophashmap has no return statement for a name that matches none of the
\* six: the value it then yields is undefined.  fallthrough is that value.
hw_ophashmap(str, fallthrough) ==
    IF hw_strcmp(str, "madlib.linregr_predict") THEN LINREGR
    ELSE IF hw_strcmp(str, "madlib.logregr_predict_prob") THEN LOGREGR
    ELSE IF hw_strcmp(str, "madlib.svm_predict") THEN SVM
    ELSE IF hw_strcmp(str, "madlib.mlp_predict") THEN MLP
    ELSE IF hw_strcmp(str, "madlib.tree_predict") THEN TREE
    ELSE IF hw_strcmp(str, "madlib.forest_predict") THEN FOREST
    ELSE fallthrough

\* The values the fall-through of hw_ophashmap yields in a build of the file:
\* 0 when compiled without optimisation (the result of the last hw_strcmp is
\* still in the return register), 2 when compiled with -O1 or higher (the
\* compiler folds the last comparison into "return FOREST").
OphashFallthrough == {NONE, FOREST}

hw_aggrhashmap(str) ==
    IF hw_strcmp(str, "COUNT") THEN COUNT
    ELSE IF hw_strcmp(str, "MAX") THEN MAX
    ELSE IF hw_strcmp(str, "MIN") THEN MIN
    ELSE IF hw_strcmp(str, "AVG") THEN AVG
    ELSE IF hw_strcmp(str, "SUM") THEN SUM
    ELSE 0

hw_filterhashmap(str) ==
    IF hw_strcmp(str, ">") THEN LARGER
    ELSE IF hw_strcmp(str, ">=") THEN LARGERSAME
    ELSE IF hw_strcmp(str, "==") THEN SAME
    ELSE IF hw_strcmp(str, "<") THEN SMALLER
    ELSE IF hw_strcmp(str, "<=") THEN SMALLERSAME
    ELSE 0

init_operation_info ==
    [hw_support |-> FALSE, hw_operation |-> NONE, hw_query_num |-> -1,
     data_table_name |-> NULL, model_table_name |-> NULL,
     model_col_len |-> 0, model_col_name |-> << >>,
     data_col_len |-> 0, data_col_name |-> << >>,
     id_col_name |-> NULL, output_table_name |-> NULL,
     filter_flag |-> FALSE, filter_operation |-> NONE,
     filter_table_name |-> NULL, filter_col_name |-> NULL, filter_value |-> 0,
     aggr_flag |-> FALSE, aggr_operation |-> NONE,
     aggr_table_name |-> NULL, aggr_table_col |-> NULL]


\* word_array[k], k counted from 0 as in the source.
W(words, k) == words[k + 1]

\* word_array holds word_size initialised pointers; index k is one of them.
InBounds(words, k) == k >= 0 /\ k < Len(words)

\* strtok(name, "."): the parts of a table.column word.  The words of the
\* modelled vocabulary that hold a '.' and are split this way are listed.
SplitDot(word) ==
    CASE word = "d.x1" -> <<"d", "x1">>
      [] word = "p.pred" -> <<"p", "pred">>
      [] word = "madlib.linregr_predict" -> <<"madlib", "linregr_predict">>
      [] word = "madlib.logregr_predict_prob" -> <<"madlib", "logregr_predict_prob">>
      [] word = "madlib.svm_predict" -> <<"madlib", "svm_predict">>
      [] word = "madlib.mlp_predict" -> <<"madlib", "mlp_predict">>
      [] word = "madlib.tree_predict" -> <<"madlib", "tree_predict">>
      [] word = "madlib.forest_predict" -> <<"madlib", "forest_predict">>
      [] OTHER -> <<word>>

\* atof on the literal words of the modelled vocabulary.
Atof(word) ==
    CASE word = "1" -> 1
      [] word = "3" -> 3
      [] OTHER -> 0

IsRegression(op) == (op = LINREGR) \/ (op = LOGREGR)

\* The while loop that measures an ARRAY[...] literal: the number of words
\* after position i up to the next FROM or ARRAY; -1 when the scan runs off
\* the end of word_array.
RECURSIVE ArrLen(_, _, _)
ArrLen(words, i, k) ==
    IF ~InBounds(words, i + 1 + k) THEN -1
    ELSE IF hw_strcmp(W(words, i + 1 + k), "FROM")
              \/ hw_strcmp(W(words, i + 1 + k), "ARRAY") THEN k
    ELSE ArrLen(words, i, k + 1)

\* A column list read with a coef reference taken for two columns.
ParseColsCoefAsTwo(words, i, old_len, old_names) ==
    IF ~InBounds(words, i) THEN [ok |-> FALSE, len |-> 0, names |-> << >>, next |-> i]
    ELSE IF hw_strcmp(W(words, i), "ARRAY") THEN
        LET n == ArrLen(words, i, 0)
        IN  IF n < 0 THEN [ok |-> FALSE, len |-> 0, names |-> << >>, next |-> i]
            ELSE [ok |-> TRUE, len |-> n,
                  names |-> [k \in 1..n |-> W(words, i + k)],
                  next |-> i + 1 + n]
    ELSE IF hw_strcmp(W(words, i), "coef") THEN
        [ok |-> TRUE, len |-> 2, names |-> <<W(words, i), W(words, i)>>,
         next |-> i + 1]
    ELSE [ok |-> TRUE, len |-> old_len, names |-> old_names, next |-> i]

\* One column list of a regression call, read at position i: an ARRAY
\* literal, a single coef reference, or neither (the list is left as it was).
ParseCols(words, i, old_len, old_names) ==
    IF ~InBounds(words, i) THEN [ok |-> FALSE, len |-> 0, names |-> << >>, next |-> i]
    ELSE IF hw_strcmp(W(words, i), "ARRAY") THEN
        LET n == ArrLen(words, i, 0)
        IN  IF n < 0 THEN [ok |-> FALSE, len |-> 0, names |-> << >>, next |-> i]
            ELSE [ok |-> TRUE, len |-> n,
                  names |-> [k \in 1..n |-> W(words, i + k)],
                  next |-> i + 1 + n]
    ELSE IF hw_strcmp(W(words, i), "coef") THEN
        [ok |-> TRUE, len |-> 1, names |-> <<W(words, i)>>, next |-> i + 1]
    ELSE [ok |-> TRUE, len |-> old_len, names |-> old_names, next |-> i]

\* a loop that never takes the inhib break
InhibBreakNever(inhib) == FALSE

\* if (inhib > 20) break; after inhib++
InhibBreak(inhib) == inhib > 20

\* One iteration of the for loop of extract_operation_info.  st holds the
\* locals (i, query_cluster, inhib), the profile under construction and the
\* status: "run", "done" (returned) or "fault" (a read past word_array).
ExtractIter(words, st, fallthrough) ==
    LET i == st.i
        info == st.info
        cluster == hw_queryhashmap(W(words, i), st.query_cluster)
        base == [st EXCEPT !.query_cluster = cluster]
        Fault == [base EXCEPT !.status = "fault"]
        Return(inf) == [base EXCEPT !.info = inf, !.status = "done"]
        Continue(inf, ni) ==
            [base EXCEPT !.info = inf, !.i = ni, !.inhib = st.inhib + 1,
                         !.status = IF InhibBreak(st.inhib + 1) THEN "done"
                                   ELSE "run"]
    IN
    CASE cluster = NONE ->
            IF i = 0 THEN Return([info EXCEPT !.hw_support = FALSE])
            ELSE Continue([info EXCEPT !.hw_support = FALSE], i + 1)
      [] cluster = SELECT ->
            IF ~InBounds(words, i + 1) THEN Fault
            ELSE
            LET query_check == hw_ophashmap(W(words, i + 1), fallthrough)
                aggr_check == hw_aggrhashmap(W(words, i + 1))
            IN
            IF query_check # NONE THEN
                LET inf0 == [info EXCEPT !.hw_support = TRUE,
                                         !.hw_operation = query_check]
                IN
                IF IsRegression(query_check) THEN
                    LET mc == ParseCols(words, i + 2, inf0.model_col_len,
                                        inf0.model_col_name)
                        dc == ParseCols(words, mc.next, inf0.data_col_len,
                                        inf0.data_col_name)
                    IN  IF ~mc.ok \/ ~dc.ok THEN Fault
                        ELSE Continue([inf0 EXCEPT
                                         !.model_col_len = mc.len,
                                         !.model_col_name = mc.names,
                                         !.data_col_len = dc.len,
                                         !.data_col_name = dc.names],
                                      dc.next)
                ELSE IF query_check \in {SVM, MLP, TREE} THEN
                    LET last == IF query_check \in {SVM, MLP} THEN i + 5 ELSE i + 4
                    IN
                    IF ~InBounds(words, last) THEN Fault
                    ELSE
                    LET inf1 == [inf0 EXCEPT
                                   !.model_table_name = W(words, i + 2),
                                   !.data_table_name = W(words, i + 3)]
                        inf2 == IF query_check \in {SVM, MLP}
                                THEN [inf1 EXCEPT
                                        !.id_col_name = W(words, i + 4),
                                        !.output_table_name = W(words, i + 5)]
                                ELSE [inf1 EXCEPT
                                        !.output_table_name = W(words, i + 4)]
                    IN  Continue(inf2, IF query_check = MLP THEN i + 7 ELSE i + 6)
                ELSE Continue(inf0, i + 1)
            ELSE IF aggr_check # 0 THEN
                IF ~InBounds(words, i + 2) THEN Fault
                ELSE
                LET parts == SplitDot(W(words, i + 2))
                IN  Continue([info EXCEPT
                                !.aggr_flag = TRUE,
                                !.aggr_operation = aggr_check,
                                !.aggr_table_name = parts[1],
                                !.aggr_table_col =
                                    IF Len(parts) > 1 THEN parts[2]
                                    ELSE info.aggr_table_col],
                             i + 3)
            ELSE Return([info EXCEPT !.hw_support = FALSE])
      [] cluster = FROM ->
            IF info.hw_support /\ IsRegression(info.hw_operation) THEN
                IF ~InBounds(words, i + 2) THEN Fault
                ELSE Continue([info EXCEPT
                                 !.model_table_name = W(words, i + 1),
                                 !.data_table_name = W(words, i + 2)],
                              i + 3)
            ELSE Continue(info, i + 1)
      [] cluster = WHERE ->
            IF ~InBounds(words, i + 3) THEN Fault
            ELSE
            LET parts == SplitDot(W(words, i + 1))
            IN  Continue([info EXCEPT
                            !.filter_flag = TRUE,
                            !.filter_table_name = parts[1],
                            !.filter_col_name =
                                IF Len(parts) > 1 THEN parts[2]
                                ELSE info.filter_col_name,
                            !.filter_operation = hw_filterhashmap(W(words, i + 2)),
                            !.filter_value = Atof(W(words, i + 3))],
                         i + 4)
      [] cluster = GROUP_BY ->
            Continue([info EXCEPT !.hw_support = FALSE], i)
      [] cluster = ORDER_BY ->
            Continue([info EXCEPT !.hw_support = FALSE], i)
      [] OTHER -> Continue(info, i + 1)

RECURSIVE ExtractLoop(_, _, _)
ExtractLoop(words, st, fallthrough) ==
    IF st.status # "run" THEN st
    ELSE IF ~(st.i < Len(words)) THEN [st EXCEPT !.status = "done"]
    ELSE ExtractLoop(words, ExtractIter(words, st, fallthrough), fallthrough)

\* extract_operation_info on a profile fresh from init_operation_info.
extract_operation_info(words, fallthrough) ==
    ExtractLoop(words,
                [i |-> 0, query_cluster |-> 0, inhib |-> 0,
                 info |-> init_operation_info, status |-> "run"],
                fallthrough)

(***************************************************************************)
(* Query Classifier                                                        *)
(***************************************************************************)
\* A classifier whose regression cases test the filter before they test the
\* filter together with the aggregate.
get_query_num_filter_first(info) ==
    IF info.hw_support THEN
        CASE info.hw_operation = LINREGR ->
                IF info.filter_flag THEN Q2
                ELSE IF info.aggr_flag THEN Q3
                ELSE Q1
          [] info.hw_operation = LOGREGR ->
                IF info.filter_flag THEN Q6
                ELSE IF info.aggr_flag THEN Q7
                ELSE Q5
          [] info.hw_operation = SVM -> Q9
          [] info.hw_operation = MLP -> Q10
          [] info.hw_operation = TREE -> Q11
          [] OTHER -> -1
    ELSE -1

get_query_num(info) ==
    IF info.hw_support THEN
        CASE info.hw_operation = LINREGR ->
                IF info.filter_flag /\ info.aggr_flag THEN Q4
                ELSE IF info.filter_flag THEN Q2
                ELSE IF info.aggr_flag THEN Q3
                ELSE Q1
          [] info.hw_operation = LOGREGR ->
                IF info.filter_flag /\ info.aggr_flag THEN Q8
                ELSE IF info.filter_flag THEN Q6
                ELSE IF info.aggr_flag THEN Q7
                ELSE Q5
          [] info.hw_operation = SVM -> Q9
          [] info.hw_operation = MLP -> Q10
          [] info.hw_operation = TREE -> Q11
          [] OTHER -> -1
    ELSE -1


(***************************************************************************)
(* Hardware Cost Estimator                                                 *)
(*                                                                         *)
(* The doubles of get_hw_expectation_time are kept as integers: latencies  *)
(* in microseconds (truncated), database sizes in pages of PAGE_SIZE       *)
(* bytes, storage bandwidths in pages per second, output bandwidths in     *)
(* bytes per millisecond.  Cycle totals are kept as a count of unit cycles *)
(* until they are divided, so that no product leaves 32 bits.              *)
(***************************************************************************)
PAGE_SIZE == 8192
UNIT_DATABASE_SIZE == 1073741824

USER_TOTAL_LUT == 320000
USER_TOTAL_FF == 862374
USER_TOTAL_URAM == 120
USER_TOTAL_BRAM == 673
USER_TOTAL_DSP == 1959
USER_CLOCK == 170

SMARTSSD_CORE_VAR_LUT == 105998
SMARTSSD_CORE_VAR_FF == 92258
SMARTSSD_CORE_VAR_URAM == 32
SMARTSSD_CORE_VAR_BRAM == 15
SMARTSSD_CORE_VAR_DSP == 342

SMARTSSD_CORE_CONST_LUT == 10708
SMARTSSD_CORE_CONST_FF == 9750
SMARTSSD_CORE_CONST_URAM == 0
SMARTSSD_CORE_CONST_BRAM == 22
SMARTSSD_CORE_CONST_DSP == 10

\* microseconds
HOST_ADDRESSMAP_LATENCY == 440
HOST_SETKERNEL_LATENCY == 80
HOST_CREATEBUF_LATENCY_0 == 56415
HOST_CREATEBUF_LATENCY_1 == 12845
HOST_CREATEBUF_LATENCY_2 == 4085
HOST_CREATEBUF_LATENCY_3 == 3095
HOST_CREATEBUF_LATENCY_4 == 2842
\* the literal 100 (ms) added per host iteration
CreateBufIncrement == 100000

\* pages
SMARTSSD_DATABASE_SIZE_STD_0 == 536870912 \div PAGE_SIZE
SMARTSSD_DATABASE_SIZE_STD_1 == 107380736 \div PAGE_SIZE
SMARTSSD_DATABASE_SIZE_STD_2 == 10731520 \div PAGE_SIZE
SMARTSSD_DATABASE_SIZE_STD_3 == 1064960 \div PAGE_SIZE
SMARTSSD_DATABASE_SIZE_STD_4 == 98304 \div PAGE_SIZE
\* (long long)UNIT_DATABASE_SIZE*2, in pages
UnitPages == (UNIT_DATABASE_SIZE \div PAGE_SIZE) * 2

\* pages per second (truncated)
SMARTSSD_SSD2FPGA_EFFBW_0 == 425984
SMARTSSD_SSD2FPGA_EFFBW_1 == 406323
SMARTSSD_SSD2FPGA_EFFBW_2 == 322437
SMARTSSD_SSD2FPGA_EFFBW_3 == 144179
SMARTSSD_SSD2FPGA_EFFBW_4 == 60293

\* bytes
SMARTSSD_OUTBUF_SIZE_STD_0 == 264240
SMARTSSD_OUTBUF_SIZE_STD_1 == 24576
\* bytes per millisecond (truncated)
SMARTSSD_FPGA2HOST_EFFBW_0 == 934155
SMARTSSD_FPGA2HOST_EFFBW_1 == 311385

\* <<q, r>> with a * b = q * d + r and 0 <= r < d, by doubling, so that no
\* intermediate value exceeds 2 * d + b.
RECURSIVE QuotRem(_, _, _)
QuotRem(a, b, d) ==
    IF a = 0 THEN <<0, 0>>
    ELSE LET half == QuotRem(a \div 2, b, d)
             rsum == 2 * half[2] + (a % 2) * b
         IN  <<2 * half[1] + rsum \div d, rsum % d>>

\* a * b / d, truncated.
MulDiv(a, b, d) == QuotRem(a, b, d)[1]

Min(a, b) == IF a <= b THEN a ELSE b

\* lines 1856-1874
user_corenum ==
    Min(Min(Min(Min((USER_TOTAL_LUT - SMARTSSD_CORE_CONST_LUT)
                        \div SMARTSSD_CORE_VAR_LUT,
                    (USER_TOTAL_FF - SMARTSSD_CORE_CONST_FF)
                        \div SMARTSSD_CORE_VAR_FF),
                (USER_TOTAL_URAM - SMARTSSD_CORE_CONST_URAM)
                    \div SMARTSSD_CORE_VAR_URAM),
            (USER_TOTAL_BRAM - SMARTSSD_CORE_CONST_BRAM)
                \div SMARTSSD_CORE_VAR_BRAM),
        (USER_TOTAL_DSP - SMARTSSD_CORE_CONST_DSP) \div SMARTSSD_CORE_VAR_DSP)

\* user_database_size, in pages
user_database_size(user_pagenum) == user_pagenum + 1

host_iteration(user_pagenum) == user_database_size(user_pagenum) \div UnitPages

\* page_iteration, and user_lastdatabase_size in pages
page_iteration(user_pagenum) ==
    user_database_size(user_pagenum) - host_iteration(user_pagenum) * UnitPages

\* lines 1898-1910
host_createbuffer_latency(lastsize) ==
    IF lastsize <= SMARTSSD_DATABASE_SIZE_STD_4 THEN HOST_CREATEBUF_LATENCY_4
    ELSE IF lastsize <= SMARTSSD_DATABASE_SIZE_STD_3
        THEN MulDiv(HOST_CREATEBUF_LATENCY_4, lastsize, SMARTSSD_DATABASE_SIZE_STD_4)
    ELSE IF lastsize <= SMARTSSD_DATABASE_SIZE_STD_2
        THEN MulDiv(HOST_CREATEBUF_LATENCY_3, lastsize, SMARTSSD_DATABASE_SIZE_STD_3)
    ELSE IF lastsize <= SMARTSSD_DATABASE_SIZE_STD_1
        THEN MulDiv(HOST_CREATEBUF_LATENCY_2, lastsize, SMARTSSD_DATABASE_SIZE_STD_2)
    ELSE IF lastsize <= SMARTSSD_DATABASE_SIZE_STD_0
        THEN MulDiv(HOST_CREATEBUF_LATENCY_1, lastsize, SMARTSSD_DATABASE_SIZE_STD_1)
    ELSE MulDiv(HOST_CREATEBUF_LATENCY_0, lastsize, SMARTSSD_DATABASE_SIZE_STD_0)

\* A loop body that adds the fixed increment on the last iteration whatever
\* the number of host iterations.
CreateBufStepAlways(i, h, lat) ==
    IF i = h THEN lat + CreateBufIncrement ELSE CreateBufIncrement

\* The body of the loop of lines 1913-1920: what iteration i adds.
CreateBufStep(i, h, lat) ==
    IF i = h /\ h # 0 THEN lat + CreateBufIncrement
    ELSE IF i = h /\ h = 0 THEN lat
    ELSE CreateBufIncrement

RECURSIVE CreateBufLoop(_, _, _, _)
CreateBufLoop(i, h, lat, acc) ==
    IF ~(i < h + 1) THEN acc
    ELSE CreateBufLoop(i + 1, h, lat, acc + CreateBufStep(i, h, lat))

\* lines 1912-1920
host_total_createbuffer_latency(h, lat) ==
    CreateBufLoop(0, h, lat,
                  MulDiv(h * HOST_CREATEBUF_LATENCY_0, UnitPages,
                         SMARTSSD_DATABASE_SIZE_STD_0))

\* lines 1923-1935
user_ssd2fpga_effbw(lastsize) ==
    IF lastsize <= SMARTSSD_DATABASE_SIZE_STD_4 THEN SMARTSSD_SSD2FPGA_EFFBW_4
    ELSE IF lastsize <= SMARTSSD_DATABASE_SIZE_STD_3
        THEN MulDiv(SMARTSSD_SSD2FPGA_EFFBW_4, lastsize, SMARTSSD_DATABASE_SIZE_STD_4)
    ELSE IF lastsize <= SMARTSSD_DATABASE_SIZE_STD_2
        THEN MulDiv(SMARTSSD_SSD2FPGA_EFFBW_3, lastsize, SMARTSSD_DATABASE_SIZE_STD_3)
    ELSE IF lastsize <= SMARTSSD_DATABASE_SIZE_STD_1
        THEN MulDiv(SMARTSSD_SSD2FPGA_EFFBW_2, lastsize, SMARTSSD_DATABASE_SIZE_STD_2)
    ELSE IF lastsize <= SMARTSSD_DATABASE_SIZE_STD_0
        THEN MulDiv(SMARTSSD_SSD2FPGA_EFFBW_1, lastsize, SMARTSSD_DATABASE_SIZE_STD_1)
    ELSE SMARTSSD_SSD2FPGA_EFFBW_0

\* (size / effbw) * 1000 ms, size in pages and effbw in pages per second
TransferLatency(size, effbw) == MulDiv(size, 1000000, effbw)

\* The loops of lines 1938-1943, 1962-1972 and 2182-2198: last on the
\* iteration i = h, full on every iteration before it.
RECURSIVE HostLoop(_, _, _, _, _)
HostLoop(i, h, full, last, acc) ==
    IF ~(i < h + 1) THEN acc
    ELSE HostLoop(i + 1, h, full, last, acc + (IF i = h THEN last ELSE full))

host_total_ssd2fpga_latency(h, lastsize) ==
    HostLoop(0, h,
             TransferLatency(UnitPages, SMARTSSD_SSD2FPGA_EFFBW_0),
             TransferLatency(lastsize, user_ssd2fpga_effbw(lastsize)),
             0)

IsAggrQuery(user_query) == user_query \in {Q3, Q4, Q7, Q8}

\* lines 1946-1950, in bytes
user_outbuffer_size(user_query, user_pagenum, h) ==
    IF IsAggrQuery(user_query) THEN 4096
    ELSE ((user_pagenum - h * 131072 * 2) * 4096) \div 2

\* lines 1952-1958
user_fpga2host_effbw(outsize) ==
    IF outsize <= SMARTSSD_OUTBUF_SIZE_STD_1 THEN SMARTSSD_FPGA2HOST_EFFBW_1
    ELSE IF outsize <= SMARTSSD_OUTBUF_SIZE_STD_0
        THEN MulDiv(SMARTSSD_FPGA2HOST_EFFBW_1, outsize, SMARTSSD_OUTBUF_SIZE_STD_1)
    ELSE SMARTSSD_FPGA2HOST_EFFBW_0

\* (bytes / effbw) * 1000 ms, effbw in bytes per millisecond
OutputLatency(bytes, effbw) == MulDiv(bytes, 1000, effbw)

\* lines 1960-1973
host_total_fpga2host_latency(user_query, h, outsize) ==
    LET last == OutputLatency(outsize, user_fpga2host_effbw(outsize))
    IN  IF IsAggrQuery(user_query) THEN HostLoop(0, h, last, last, 0)
        ELSE HostLoop(0, h,
                      OutputLatency(131072 * 4096, SMARTSSD_FPGA2HOST_EFFBW_0),
                      last, 0)

\* user_unit_com_cycle and user_unit_dma_cycle of lines 1976-2177, by
\* dataset; entry user_query_num + 1 of each row is <<com, dma>>.
UnitCycles(user_dataset, user_query_num) ==
    LET ofHIGGS ==
            << <<5522, 703>>, <<5522, 703>>, <<5582, 518>>, <<5582, 518>>,
            <<5552, 701>>, <<5552, 701>>, <<5612, 521>>, <<5612, 521>>,
            <<5522, 703>>, <<28048, 5766>>, <<4591, 5534>> >>
        ofFOREST ==
            << <<5215, 785>>, <<5215, 778503>>, <<5308, 527>>, <<5308, 527>>,
            <<5244, 782>>, <<5244, 782>>, <<5338, 535>>, <<5338, 535>>,
            <<5215, 785>>, <<14651, 5685>>, <<2903, 5500>> >>
        ofWILT ==
            << <<5087, 884>>, <<5087, 884>>, <<5238, 536>>, <<5238, 536>>,
            <<5117, 882>>, <<5117, 882>>, <<5268, 534>>, <<5268, 534>>,
            <<5087, 882>>, <<7785, 5864>>, <<4512, 5623>> >>
        ofHABERMAN ==
            << <<4335, 980>>, <<4335, 980>>, <<4507, 533>>, <<4507, 533>>,
            <<4365, 949>>, <<4365, 949>>, <<4537, 534>>, <<4537, 534>>,
            <<4335, 979>>, <<4019, 5356>>, <<4153, 5050>> >>
    IN  IF user_query_num \notin QueryClasses THEN <<0, 0>>
        ELSE IF user_dataset = HIGGS THEN ofHIGGS[user_query_num + 1]
        ELSE IF user_dataset = FOREST THEN ofFOREST[user_query_num + 1]
        ELSE IF user_dataset = WILT THEN ofWILT[user_query_num + 1]
        ELSE IF user_dataset = HABERMAN THEN ofHABERMAN[user_query_num + 1]
        ELSE <<0, 0>>

\* user_total_com_cycle (lines 2181-2187), counted in unit cycles.
user_total_com_units(h, pages) == HostLoop(0, h, UnitPages, pages, 0)

\* user_total_dma_cycle (lines 2189-2199), counted in unit cycles.
user_total_dma_units(user_query, h, pages) ==
    IF IsAggrQuery(user_query) THEN h + 1
    ELSE HostLoop(0, h, UnitPages, pages, 0)

\* ((cycles / user_corenum) / (user_clock * 1000000)) * 1000 ms
CycleLatency(unit_cycle, units) ==
    MulDiv(unit_cycle, units, user_corenum * USER_CLOCK)

\* user_total_kernel_latency * 0.041
user_kernel_overhead_latency(kernel) == MulDiv(kernel, 41, 1000)

\* get_hw_expectation_time, with the terms of its sum.
get_hw_expectation_time(user_query_num, user_dataset, user_pagenum) ==
    LET h == host_iteration(user_pagenum)
        pages == page_iteration(user_pagenum)
        createbuffer ==
            host_total_createbuffer_latency(h, host_createbuffer_latency(pages))
        addressmap == HOST_ADDRESSMAP_LATENCY * (h + 1)
        setkernel == HOST_SETKERNEL_LATENCY * (h + 1)
        ssd2fpga == host_total_ssd2fpga_latency(h, pages)
        outsize == user_outbuffer_size(user_query_num, user_pagenum, h)
        fpga2host == host_total_fpga2host_latency(user_query_num, h, outsize)
        unit == UnitCycles(user_dataset, user_query_num)
        com == CycleLatency(unit[1], user_total_com_units(h, pages))
        dma == CycleLatency(unit[2],
                            user_total_dma_units(user_query_num, h, pages))
        kernel == com + dma
        overhead == user_kernel_overhead_latency(kernel)
    IN  [host_iteration |-> h,
         page_iteration |-> pages,
         createbuffer |-> createbuffer,
         addressmap |-> addressmap,
         ssd2fpga |-> ssd2fpga,
         setkernel |-> setkernel,
         com |-> com,
         dma |-> dma,
         overhead |-> overhead,
         fpga2host |-> fpga2host,
         total |-> createbuffer + addressmap + ssd2fpga + setkernel + kernel
                     + overhead + fpga2host]

(***************************************************************************)
(* Adaptive CPU Cost Model: adjust_range                                   *)
(*                                                                         *)
(* A sample is the pair <<data_num, exec_time>>: the source keeps the two  *)
(* in parallel arrays that it always moves together.  An array is a        *)
(* sequence as long as its allocation; the cells past the stored length    *)
(* hold what the code left there.  A set of coefficients is modelled by    *)
(* the samples polyfit was given.  An error rate comes from the caller,    *)
(* who takes it from ErrorRateTable or from AdjRates.                      *)
(***************************************************************************)

\* what "= 0" writes into a vacated cell
ZeroCell == <<0, 0>>

\* a cell malloc returned and nothing wrote, or a read outside the array
UninitCell == <<-1, -1>>

\* coefficients polyfit never wrote: pointCount < coefficientCount
UninitCoef == <<UninitCell>>

\* the thresholds of the two stop checks: 5 percent, 4 samples
SmallEnoughRate == 5000
TooSmallLen == 4

\* arr[k], k counted from 0
Cell(arr, k) == IF k >= 0 /\ k < Len(arr) THEN arr[k + 1] ELSE UninitCell

\* malloc(sizeof(double) * capacity), then the copy of the first len cells
NewArray(src, len, capacity) ==
    [k \in 1..capacity |-> IF k <= len THEN Cell(src, k - 1) ELSE UninitCell]

\* the coefficients get_avg_error leaves for the first len cells of arr
Fit(arr, len) ==
    IF len < EXEC_ORDER + 1 THEN UninitCoef
    ELSE [k \in 1..len |-> Cell(arr, k - 1)]

\* The boundary moves right by right[0], the sample the buckets share.
GrowLeftWithFirst(b) ==
    [left |-> [k \in 1..Len(b.left) |->
                   IF k = b.left_len + 1 THEN Cell(b.right, 0) ELSE b.left[k]],
     left_len |-> b.left_len + 1,
     right |-> [k \in 1..Len(b.right) |->
                   IF k <= b.right_len - 1 THEN Cell(b.right, k)
                   ELSE IF k = b.right_len THEN ZeroCell
                   ELSE b.right[k]],
     right_len |-> b.right_len - 1]

\* The boundary moves right (the move of phase 1, the roll back of phase 2):
\* left takes right[1], right drops its first cell.
GrowLeft(b) ==
    [left |-> [k \in 1..Len(b.left) |->
                   IF k = b.left_len + 1 THEN Cell(b.right, 1) ELSE b.left[k]],
     left_len |-> b.left_len + 1,
     right |-> [k \in 1..Len(b.right) |->
                   IF k <= b.right_len - 1 THEN Cell(b.right, k)
                   ELSE IF k = b.right_len THEN ZeroCell
                   ELSE b.right[k]],
     right_len |-> b.right_len - 1]

\* The boundary moves left (the move of phase 2, the roll back of phase 1):
\* right takes left[left_len - 2] in front, left drops its last cell.
GrowRight(b) ==
    [left |-> [k \in 1..Len(b.left) |->
                   IF k = b.left_len THEN ZeroCell ELSE b.left[k]],
     left_len |-> b.left_len - 1,
     right |-> [k \in 1..Len(b.right) |->
                   IF k = 1 THEN Cell(b.left, b.left_len - 2)
                   ELSE IF k <= b.right_len + 1 THEN b.right[k - 1]
                   ELSE b.right[k]],
     right_len |-> b.right_len + 1]

\* A candidate, with error rates le and re, replaces the best so far, with
\* rates minl and minr: cases 1, 2, 3_1 and 3_2 of either phase.
Accepts(le, re, minl, minr) ==
    IF le < minl /\ re < minr THEN TRUE
    ELSE IF le > minl /\ re > minr THEN FALSE
    ELSE IF le < minl /\ re > minr THEN (minl - le) > (re - minr)
    ELSE (minr - re) > (le - minl)

\* The best so far of one phase, as the phase starts.
PhaseStart(data1, data2, len1, len2, dl, dr) ==
    [b |-> [left |-> NewArray(data1, len1, len1 + len2), left_len |-> len1,
            right |-> NewArray(data2, len2, len1 + len2), right_len |-> len2],
     min_left_error_rate |-> dl,
     min_right_error_rate |-> dr,
     min_left_coef |-> Fit(data1, len1),
     min_right_coef |-> Fit(data2, len2),
     min_left_len |-> len1,
     min_right_len |-> len2,
     freed |-> FALSE,
     rec |-> 0]

\* the test of the for loop of phase 1: phase1_rec < def_data2_len
Phase1Continues(def_data1_len, def_data2_len, phase1_rec) ==
    phase1_rec < def_data2_len

\* the same test with the other bucket's length
Phase2ContinuesOnRight(def_data1_len, def_data2_len, phase2_rec) ==
    phase2_rec < def_data2_len

\* the test of the for loop of phase 2: phase2_rec < def_data1_len
Phase2Continues(def_data1_len, def_data2_len, phase2_rec) ==
    phase2_rec < def_data1_len

\* where control goes when phase 1 is over
AfterPhase1(def_data1_len, def_data2_len) ==
    IF Phase2Continues(def_data1_len, def_data2_len, 0) THEN "phase2"
    ELSE "final"

\* adjust_range up to the first loop: the defaults and both phases' copies.
AdjustStart(data1, data2, len1, len2, first_flag, dl, dr) ==
    [first_flag |-> first_flag,
     def_data1_len |-> len1,
     def_data2_len |-> len2,
     def_left_error_rate |-> dl,
     def_right_error_rate |-> dr,
     p1 |-> PhaseStart(data1, data2, len1, len2, dl, dr),
     p2 |-> PhaseStart(data1, data2, len1, len2, dl, dr),
     pc |-> IF Phase1Continues(len1, len2, 0) THEN "phase1"
            ELSE AfterPhase1(len1, len2)]

\* The candidate was accepted: the best so far becomes the candidate.
Accepted(p, moved, le, re) ==
    [p EXCEPT !.b = moved,
              !.min_left_error_rate = le,
              !.min_right_error_rate = re,
              !.min_left_coef = Fit(moved.left, moved.left_len),
              !.min_right_coef = Fit(moved.right, moved.right_len),
              !.min_left_len = moved.left_len,
              !.min_right_len = moved.right_len]

\* The two checks that end a phase after an accepted move.  Both phases
\* read the variables of phase 1, which is what q is.
StopsAfterAccept(q) ==
    \/ q.min_left_error_rate < SmallEnoughRate
    \/ q.min_right_error_rate < SmallEnoughRate
    \/ q.min_left_len < TooSmallLen
    \/ q.min_right_len < TooSmallLen

\* One iteration of the loop of phase 1 (lines 2820-2978); le and re are
\* the error rates get_avg_error returns for the moved buckets.
Phase1Iter(a, le, re) ==
    LET p == a.p1
        moved == GrowLeft(p.b)
        after == AfterPhase1(a.def_data1_len, a.def_data2_len)
        next == IF Phase1Continues(a.def_data1_len, a.def_data2_len, p.rec + 1)
                THEN "phase1" ELSE after
    IN  IF Accepts(le, re, p.min_left_error_rate, p.min_right_error_rate) THEN
            LET acc == Accepted(p, moved, le, re)
            IN  IF StopsAfterAccept(acc)
                THEN [a EXCEPT !.p1 = [acc EXCEPT !.b = GrowRight(moved),
                                                  !.freed = TRUE,
                                                  !.rec = p.rec + 1],
                               !.pc = after]
                ELSE [a EXCEPT !.p1 = [acc EXCEPT !.rec = p.rec + 1],
                               !.pc = next]
        ELSE [a EXCEPT !.p1 = [p EXCEPT !.b = GrowRight(moved),
                                        !.rec = p.rec + 1],
                       !.pc = after]

\* One iteration of the loop of phase 2 (lines 3028-3186).
Phase2Iter(a, le, re) ==
    LET p == a.p2
        moved == GrowRight(p.b)
        next == IF Phase2Continues(a.def_data1_len, a.def_data2_len, p.rec + 1)
                THEN "phase2" ELSE "final"
    IN  IF Accepts(le, re, p.min_left_error_rate, p.min_right_error_rate) THEN
            LET acc == Accepted(p, moved, le, re)
            IN  IF StopsAfterAccept(a.p1)
                THEN [a EXCEPT !.p2 = [acc EXCEPT !.b = GrowLeft(moved),
                                                  !.freed = TRUE,
                                                  !.rec = p.rec + 1],
                               !.pc = "final"]
                ELSE [a EXCEPT !.p2 = [acc EXCEPT !.rec = p.rec + 1],
                               !.pc = next]
        ELSE [a EXCEPT !.p2 = [p EXCEPT !.b = GrowLeft(moved),
                                        !.rec = p.rec + 1],
                       !.pc = "final"]

\* The end of adjust_range (lines 3204-3252): the phase with the lower sum
\* of error rates is handed out, the other one is freed.
Phase1Wins(a) ==
    a.p1.min_left_error_rate + a.p1.min_right_error_rate
        < a.p2.min_left_error_rate + a.p2.min_right_error_rate

AdjustResult(a) ==
    LET win == IF Phase1Wins(a) THEN a.p1 ELSE a.p2
        lose == IF Phase1Wins(a) THEN a.p2 ELSE a.p1
    IN  [min_left |-> win.b.left,
         min_right |-> win.b.right,
         data1_len |-> win.min_left_len,
         data2_len |-> win.min_right_len,
         min_left_coef |-> win.min_left_coef,
         min_right_coef |-> win.min_right_coef,
         left_error_rate |-> win.min_left_error_rate,
         right_error_rate |-> win.min_right_error_rate,
         \* the coefficients handed out were freed in the loop
         coef_dangling |-> win.freed,
         \* the coefficients freed here were freed in the loop already
         double_free |-> lose.freed]

(***************************************************************************)
(* Adaptive CPU Cost Model: the seeded samples of get_init_values           *)
(*                                                                         *)
(* Sizes are the source's values times 500, times the source's values      *)
(* times 100 (truncated).  Row q + 1 of an exec_time table is the array    *)
(* q<q+1>_exec_time<k>_saved.                                              *)
(***************************************************************************)

data1_len_saved == 15
data2_len_saved == 13
data3_len_saved == 18

data_num1_saved ==
    <<750, 1250, 3250, 7000, 7500, 12500, 15000, 25000, 32500, 65000, 70000, 140000, 150000, 250000, 650000>>

data_num2_saved ==
    <<650000, 1400000, 1500000, 2500000, 6500000, 7500000, 12500000, 14000000, 16500000, 27500000, 32500000, 37500000, 62500000>>

data_num3_saved ==
    <<62500000, 65000000, 71500000, 75000000, 112500000, 125000000, 154000000, 162500000, 165000000, 187500000, 275000000, 325000000, 350000000, 487500000, 700000000, 715000000, 1050000000, 1540000000>>

exec_time1_saved ==
  <<
    <<500, 1119, 774, 1679, 2823, 3014, 3895, 4134, 3597, 5241, 4524, 7299, 20990, 24050, 36552>>,
    <<935, 1129, 1284, 1325, 2048, 2604, 2719, 3586, 3041, 4694, 3315, 5416, 13975, 19390, 30552>>,
    <<740, 896, 1422, 1592, 2769, 2963, 78, 4037, 3578, 5630, 4538, 7222, 22095, 32782, 40536>>,
    <<1789, 1251, 1286, 1389, 2168, 2532, 2814, 3499, 3299, 4822, 3621, 5293, 14488, 26595, 33005>>,
    <<1279, 1142, 1291, 1584, 2818, 3389, 4323, 4602, 3904, 5537, 4638, 7587, 27706, 32680, 42125>>,
    <<1016, 1068, 1200, 1349, 2258, 2602, 3304, 4085, 3393, 5294, 3468, 6195, 17446, 23962, 35655>>,
    <<1220, 1360, 1446, 1698, 3315, 3354, 4600, 4664, 3619, 5951, 4782, 8150, 28485, 32783, 45684>>,
    <<516, 1262, 756, 1396, 2162, 2690, 3331, 4049, 3282, 5477, 3601, 5957, 18708, 27193, 39097>>,
    <<8117, 7834, 7458, 7684, 8929, 9265, 11081, 11176, 10152, 12461, 11536, 15216, 43906, 49686, 61165>>,
    <<7674, 7928, 9212, 9695, 12058, 12470, 17521, 19055, 13322, 19033, 15988, 21969, 111838, 111973, 121708>>,
    <<8231, 9162, 8554, 8628, 10770, 9748, 11643, 12166, 10408, 12237, 11087, 12936, 58926, 49426, 53912>>
  >>

exec_time2_saved ==
  <<
    <<36552, 54897, 666635, 745026, 1057328, 1135089, 1522022, 1637497, 2333479, 2580333, 3039076, 4855964, 5655183>>,
    <<30552, 37006, 602193, 651426, 848172, 897312, 1142735, 1216273, 1450988, 2032173, 2119906, 3064907, 4606215>>,
    <<40536, 58449, 721643, 802549, 1124947, 1205241, 1604891, 1724197, 2413495, 2973830, 3173686, 5055157, 6168749>>,
    <<33005, 40049, 659710, 710906, 915529, 966645, 1221992, 1298521, 1584922, 2190772, 2239583, 3156984, 4832514>>,
    <<42125, 61380, 986414, 1084662, 1475879, 1573242, 2057423, 2201825, 3227131, 3575492, 3950961, 6564633, 7501365>>,
    <<35655, 41814, 893500, 953982, 1195561, 1255869, 1556884, 1647020, 1991699, 2821773, 2752392, 4026079, 6411581>>,
    <<45684, 70272, 1081520, 1184104, 1592766, 1694515, 2200772, 2351845, 3395363, 3562250, 4185002, 6999229, 7987180>>,
    <<39097, 45167, 877850, 943991, 1207951, 1273791, 1602095, 1700297, 2056463, 3065597, 2900643, 4326737, 6171812>>,
    <<61165, 90170, 1687316, 1833118, 2414019, 2558669, 3278493, 3493330, 5080534, 5255964, 6101477, 10637562, 11913857>>,
    <<121708, 148695, 3410440, 3809602, 5396317, 5790520, 7746755, 8328839, 13129955, 13974723, 15328515, 28264003, 27597992>>,
    <<53912, 61242, 1374036, 1535151, 2175597, 2334708, 3124288, 3359226, 4874434, 5587819, 6184252, 11304087, 11619787>>
  >>

exec_time3_saved ==
  <<
    <<5655183, 5403609, 4305214, 6107169, 8650812, 9467000, 5794483, 8909637, 22958047, 13331841, 24097525, 20806119, 13956209, 28540293, 38530750, 40471770, 60527980, 120596928>>,
    <<4606215, 3693077, 3319421, 4173649, 5962225, 6553922, 3911523, 7677187, 14455186, 9482456, 19528374, 15791144, 9279844, 23135064, 32846850, 34651642, 50126913, 80032303>>,
    <<6168749, 5625337, 4506983, 6356471, 9006802, 9859722, 6244983, 9008487, 23009548, 13917233, 25709182, 21870863, 14952154, 30277841, 41340238, 43331122, 65641843, 130260524>>,
    <<4832514, 3881034, 3892426, 4383296, 6256248, 6877185, 4166958, 7696205, 14994569, 9960951, 20584482, 16671675, 10054822, 24620761, 35389032, 37298494, 55247859, 91073429>>,
    <<7501365, 6885842, 4736666, 7754906, 10879126, 11875254, 6251373, 9598918, 31576667, 16544544, 31439578, 25303411, 14464988, 33918178, 44532372, 47095475, 68050605, 136707092>>,
    <<6411581, 4666951, 4256004, 5249320, 7406524, 8116631, 4190549, 8204259, 18786198, 11605571, 25272729, 18982071, 9663048, 27357492, 38185158, 40446228, 57229732, 90956550>>,
    <<7987180, 7274959, 5527012, 8193538, 11510342, 12572918, 6944743, 10281269, 32955208, 17589000, 33410132, 27169965, 15791665, 36782024, 48559494, 51322095, 73006362, 138951078>>,
    <<6171812, 4962549, 4513339, 5585462, 7875765, 8623891, 4604995, 8940526, 19753879, 12259535, 26071066, 19750986, 10299303, 28035263, 38699402, 40970138, 58506944, 98925366>>,
    <<11913857, 10503030, 7097166, 11812797, 16546922, 18065113, 8839836, 15248877, 48720776, 25241384, 48604570, 38975281, 21398083, 52711123, 69242929, 73367965, 102192881, 188220719>>,
    <<27597992, 26842980, 14985080, 30191639, 41969746, 45631473, 14587108, 28357055, 129336708, 62086509, 133079607, 88839483, 35184343, 108021092, 122745641, 130669582, 156243553, 327864033>>,
    <<11619787, 10830379, 5329217, 12181198, 16930206, 18405693, 5793130, 11521705, 53900122, 25026827, 53561567, 35711082, 12856848, 43133344, 48208757, 51589431, 58677486, 118713428>>
  >>

\* get_avg_error on the samples the program meets: the seeded buckets as
\* the start-up calls of adjust_range scan them, and the buckets of Q1 and
\* Q5 after up to four of the commands of Commands were fed back.  A row is
\* <<first flag, length, first size, Checksum, error rate>>: the first
\* four describe the samples handed in, the last is the error rate the
\* function computes for them in double arithmetic, in 0.001 percent
\* (truncated).
ErrorRateRows ==
  {
    <<1, 16, 750, 878497, 45821>>,
    <<1, 16, 750, 881249, 45827>>,
    <<1, 16, 750, 882081, 45873>>,
    <<1, 16, 750, 886769, 45839>>,
    <<1, 16, 750, 887601, 45885>>,
    <<1, 16, 750, 888017, 45866>>,
    <<1, 16, 750, 970581, 33000>>,
    <<1, 16, 750, 971221, 33619>>,
    <<1, 16, 750, 971541, 33903>>,
    <<1, 16, 750, 990997, 32996>>,
    <<1, 16, 750, 991637, 33614>>,
    <<1, 16, 750, 1001205, 32994>>,
    <<1, 17, 50, 984137, 45000>>,
    <<1, 17, 50, 990002, 44997>>,
    <<1, 17, 50, 991042, 45746>>,
    <<1, 17, 50, 1076078, 43830>>,
    <<1, 17, 50, 1076878, 44882>>,
    <<1, 17, 50, 1097770, 43779>>,
    <<1, 17, 500, 984787, 43841>>,
    <<1, 17, 500, 990652, 43858>>,
    <<1, 17, 500, 991692, 43640>>,
    <<1, 17, 500, 1076728, 35411>>,
    <<1, 17, 500, 1077528, 36216>>,
    <<1, 17, 500, 1098420, 35384>>,
    <<1, 17, 750, 984330, 50300>>,
    <<1, 17, 750, 990195, 50312>>,
    <<1, 17, 750, 991027, 50297>>,
    <<1, 17, 750, 1010464, 43647>>,
    <<1, 17, 750, 1016329, 43742>>,
    <<1, 17, 750, 1017161, 43807>>,
    <<1, 17, 750, 1079478, 33896>>,
    <<1, 17, 750, 1080118, 34453>>,
    <<1, 17, 750, 1101170, 33894>>,
    <<1, 17, 750, 1101367, 1018767>>,
    <<1, 17, 750, 1104119, 1018448>>,
    <<1, 17, 750, 1104951, 1006312>>,
    <<1, 17, 750, 1106873, 31561>>,
    <<1, 17, 750, 1107513, 32156>>,
    <<1, 17, 750, 1109639, 1017811>>,
    <<1, 17, 750, 1110471, 1005682>>,
    <<1, 17, 750, 1110887, 1000579>>,
    <<1, 17, 750, 1128565, 31477>>,
    <<1, 17, 750, 1182520, 917612>>,
    <<1, 17, 750, 1183160, 911797>>,
    <<1, 17, 750, 1183480, 909221>>,
    <<1, 17, 750, 1202936, 914732>>,
    <<1, 17, 750, 1203576, 908932>>,
    <<1, 17, 750, 1213144, 913299>>,
    <<1, 18, 50, 1094785, 43492>>,
    <<1, 18, 50, 1099698, 47679>>,
    <<1, 18, 50, 1127370, 42352>>,
    <<1, 18, 50, 1183125, 44057>>,
    <<1, 18, 50, 1191245, 43025>>,
    <<1, 18, 50, 1220117, 1806219>>,
    <<1, 18, 50, 1220178, 44091>>,
    <<1, 18, 50, 1225982, 1805211>>,
    <<1, 18, 50, 1227022, 1794772>>,
    <<1, 18, 50, 1300484, 1385065>>,
    <<1, 18, 50, 1301284, 1379889>>,
    <<1, 18, 50, 1322176, 1380910>>,
    <<1, 18, 500, 1100348, 48970>>,
    <<1, 18, 500, 1128020, 42272>>,
    <<1, 18, 500, 1191895, 35578>>,
    <<1, 18, 500, 1220767, 1338786>>,
    <<1, 18, 500, 1220828, 34970>>,
    <<1, 18, 500, 1226632, 1338003>>,
    <<1, 18, 500, 1227672, 1327837>>,
    <<1, 18, 500, 1301134, 1084760>>,
    <<1, 18, 500, 1301934, 1079802>>,
    <<1, 18, 500, 1322826, 1081438>>,
    <<1, 18, 750, 1127563, 50467>>,
    <<1, 18, 750, 1220310, 1032499>>,
    <<1, 18, 750, 1223578, 32131>>,
    <<1, 18, 750, 1226175, 1031863>>,
    <<1, 18, 750, 1227007, 1019606>>,
    <<1, 18, 750, 1246444, 655131>>,
    <<1, 18, 750, 1252309, 654702>>,
    <<1, 18, 750, 1253141, 647268>>,
    <<1, 18, 750, 1303884, 921221>>,
    <<1, 18, 750, 1304524, 915343>>,
    <<1, 18, 750, 1325576, 918355>>,
    <<1, 18, 750, 1331279, 576060>>,
    <<1, 18, 750, 1331919, 572471>>,
    <<1, 18, 750, 1352971, 574369>>,
    <<1, 19, 50, 1343875, 1953766>>,
    <<1, 19, 50, 1348788, 1805466>>,
    <<1, 19, 50, 1376460, 1137457>>,
    <<1, 19, 50, 1419998, 1450372>>,
    <<1, 19, 50, 1428118, 1381144>>,
    <<1, 19, 50, 1457051, 859029>>,
    <<1, 19, 500, 1349438, 1347383>>,
    <<1, 19, 500, 1377110, 852800>>,
    <<1, 19, 500, 1428768, 1086553>>,
    <<1, 19, 500, 1457701, 679121>>,
    <<1, 19, 750, 1376653, 673306>>,
    <<1, 19, 750, 1460451, 587453>>,
    <<0, 8, 1400000, 348358, 9702>>,
    <<0, 9, 1400000, 478210, 8592>>,
    <<0, 10, 1400000, 595590, 10691>>,
    <<0, 10, 1400000, 607999, 11133>>,
    <<0, 10, 1500000, 643923, 8812>>,
    <<0, 10, 2500000, 626426, 7488>>,
    <<0, 11, 1400000, 536983, 17745>>,
    <<0, 11, 1400000, 594717, 16140>>,
    <<0, 11, 1400000, 623202, 14922>>,
    <<0, 11, 1400000, 643321, 14495>>,
    <<0, 11, 1400000, 673878, 13098>>,
    <<0, 11, 1400000, 683303, 10118>>,
    <<0, 11, 1400000, 691629, 9174>>,
    <<0, 11, 1400000, 702033, 9275>>,
    <<0, 11, 1400000, 713808, 9977>>,
    <<0, 11, 1400000, 724348, 14183>>,
    <<0, 11, 1400000, 763081, 9876>>,
    <<0, 11, 1400000, 763340, 10501>>,
    <<0, 11, 1400000, 766972, 13379>>,
    <<0, 11, 1500000, 561564, 10309>>,
    <<0, 11, 1500000, 608439, 10282>>,
    <<0, 11, 1500000, 639469, 11236>>,
    <<0, 11, 1500000, 648605, 7880>>,
    <<0, 11, 1500000, 693091, 9330>>,
    <<0, 11, 1500000, 717529, 6462>>,
    <<0, 11, 1500000, 750337, 7730>>,
    <<0, 11, 1500000, 755649, 3074>>,
    <<0, 11, 1500000, 760273, 8566>>,
    <<0, 11, 1500000, 770445, 4029>>,
    <<0, 11, 1500000, 774158, 3571>>,
    <<0, 11, 1500000, 805045, 8615>>,
    <<0, 11, 1500000, 841195, 3575>>,
    <<0, 11, 2000000, 745160, 7786>>,
    <<0, 12, 1400000, 679579, 13458>>,
    <<0, 12, 1400000, 719805, 12794>>,
    <<0, 12, 1400000, 760836, 13388>>,
    <<0, 12, 1400000, 773533, 11929>>,
    <<0, 12, 1400000, 806526, 12846>>,
    <<0, 12, 1400000, 849282, 10571>>,
    <<0, 12, 1400000, 879201, 8516>>,
    <<0, 12, 1400000, 883060, 11126>>,
    <<0, 12, 1400000, 890612, 13387>>,
    <<0, 12, 1400000, 895463, 9198>>,
    <<0, 12, 1400000, 905757, 8490>>,
    <<0, 12, 1400000, 939892, 12193>>,
    <<0, 12, 1400000, 980245, 8935>>,
    <<0, 12, 1500000, 769681, 11227>>,
    <<0, 12, 1500000, 876361, 7595>>,
    <<0, 12, 1500000, 920437, 7666>>,
    <<0, 13, 250000, 901897, 79236>>,
    <<0, 13, 250000, 1020562, 62332>>,
    <<0, 13, 650000, 801381, 115375>>,
    <<0, 13, 650000, 836973, 114348>>,
    <<0, 13, 650000, 886191, 63599>>,
    <<0, 13, 650000, 902449, 78628>>,
    <<0, 13, 650000, 923043, 92562>>,
    <<0, 13, 650000, 983434, 60816>>,
    <<0, 13, 650000, 1007594, 72751>>,
    <<0, 13, 650000, 1024171, 62005>>,
    <<0, 13, 650000, 1029339, 55781>>,
    <<0, 13, 650000, 1031414, 85776>>,
    <<0, 13, 650000, 1039744, 73335>>,
    <<0, 13, 650000, 1082286, 76973>>,
    <<0, 13, 650000, 1126786, 92502>>,
    <<0, 13, 1000000, 890011, 61229>>,
    <<0, 13, 1000000, 906269, 78037>>,
    <<0, 13, 1000000, 1023591, 61706>>,
    <<0, 13, 1000000, 1028759, 54131>>,
    <<0, 13, 1400000, 830327, 12391>>,
    <<0, 13, 1400000, 896439, 12466>>,
    <<0, 13, 1400000, 901899, 12371>>,
    <<0, 13, 1400000, 902986, 12775>>,
    <<0, 13, 1400000, 909136, 11373>>,
    <<0, 13, 1400000, 923034, 12095>>,
    <<0, 13, 1400000, 934094, 10182>>,
    <<0, 13, 1400000, 976649, 9612>>,
    <<0, 13, 1400000, 1016374, 10610>>,
    <<0, 13, 1400000, 1023095, 10088>>,
    <<0, 13, 1400000, 1050514, 9870>>,
    <<0, 13, 1400000, 1067335, 10529>>,
    <<0, 13, 1400000, 1074887, 10599>>,
    <<0, 13, 1400000, 1077705, 11887>>,
    <<0, 13, 1400000, 1181992, 10912>>,
    <<0, 13, 1500000, 1060636, 7616>>,
    <<0, 14, 250000, 926128, 169184>>,
    <<0, 14, 250000, 964350, 163060>>,
    <<0, 14, 250000, 1034801, 123023>>,
    <<0, 14, 250000, 1037553, 74457>>,
    <<0, 14, 250000, 1050029, 147925>>,
    <<0, 14, 250000, 1121124, 93352>>,
    <<0, 14, 250000, 1143311, 105110>>,
    <<0, 14, 250000, 1161166, 64170>>,
    <<0, 14, 250000, 1170061, 96796>>,
    <<0, 14, 250000, 1175287, 121788>>,
    <<0, 14, 250000, 1183823, 105723>>,
    <<0, 14, 250000, 1228219, 123951>>,
    <<0, 14, 250000, 1278018, 132703>>,
    <<0, 14, 650000, 1038105, 74061>>,
    <<0, 14, 650000, 1164775, 64061>>,
    <<0, 14, 1000000, 1041925, 73681>>,
    <<0, 14, 1000000, 1164195, 63961>>,
    <<0, 14, 1400000, 1047933, 12053>>,
    <<0, 14, 1400000, 1078817, 13812>>,
    <<0, 14, 1400000, 1213131, 10988>>,
    <<0, 14, 1400000, 1214824, 10069>>,
    <<0, 14, 1400000, 1220683, 10685>>,
    <<0, 15, 1400000, 1212692, 14889>>,
    <<0, 15, 1400000, 1314126, 12493>>,
    <<0, 15, 1400000, 1321678, 13092>>,
    <<0, 15, 75000000, 1244585, 18698>>,
    <<0, 15, 75000000, 1352671, 24923>>,
    <<0, 16, 71500000, 1407413, 16629>>,
    <<0, 16, 71500000, 1542270, 21986>>,
    <<0, 16, 75000000, 1400432, 18180>>,
    <<0, 16, 75000000, 1530484, 23679>>,
    <<0, 17, 65000000, 1522837, 19128>>,
    <<0, 17, 65000000, 1584416, 17853>>,
    <<0, 17, 65000000, 1622989, 22585>>,
    <<0, 17, 65000000, 1634845, 24495>>,
    <<0, 17, 65000000, 1666654, 21411>>,
    <<0, 17, 65000000, 1683742, 25574>>,
    <<0, 17, 65000000, 1742300, 24124>>,
    <<0, 17, 65000000, 1809494, 17179>>,
    <<0, 17, 65000000, 1829401, 22435>>,
    <<0, 17, 65000000, 1865554, 17913>>,
    <<0, 17, 65000000, 1906960, 45682>>,
    <<0, 17, 65000000, 1933446, 42277>>,
    <<0, 17, 65000000, 2012881, 17098>>,
    <<0, 17, 71500000, 1568343, 16769>>,
    <<0, 17, 71500000, 1725166, 21127>>,
    <<0, 18, 62500000, 1701953, 18445>>,
    <<0, 18, 62500000, 1771093, 17228>>,
    <<0, 18, 62500000, 1819681, 21935>>,
    <<0, 18, 62500000, 1834396, 23404>>,
    <<0, 18, 62500000, 1872074, 21430>>,
    <<0, 18, 62500000, 1878155, 24940>>,
    <<0, 18, 62500000, 1953181, 23351>>,
    <<0, 18, 62500000, 2012092, 16752>>,
    <<0, 18, 62500000, 2053595, 22941>>,
    <<0, 18, 62500000, 2083790, 18136>>,
    <<0, 18, 62500000, 2125204, 43334>>,
    <<0, 18, 62500000, 2153559, 40103>>,
    <<0, 18, 62500000, 2233633, 17347>>,
    <<0, 18, 65000000, 1750429, 18061>>,
    <<0, 18, 65000000, 1930279, 23095>>,
    <<0, 19, 32500000, 1973020, 16414>>,
    <<0, 19, 32500000, 2173681, 22387>>,
    <<0, 19, 37500000, 1891675, 18146>>,
    <<0, 19, 37500000, 1968376, 17198>>,
    <<0, 19, 37500000, 2026049, 21965>>,
    <<0, 19, 37500000, 2037866, 23639>>,
    <<0, 19, 37500000, 2080432, 25165>>,
    <<0, 19, 37500000, 2087442, 21386>>,
    <<0, 19, 37500000, 2167981, 23390>>,
    <<0, 19, 37500000, 2225029, 17010>>,
    <<0, 19, 37500000, 2286269, 23035>>,
    <<0, 19, 37500000, 2306742, 18135>>,
    <<0, 19, 37500000, 2349646, 43001>>,
    <<0, 19, 37500000, 2375713, 39478>>,
    <<0, 19, 37500000, 2461421, 17268>>,
    <<0, 19, 62500000, 1942189, 17476>>,
    <<0, 19, 62500000, 2146243, 22210>>,
    <<0, 20, 27500000, 2186685, 15703>>,
    <<0, 20, 27500000, 2403778, 21486>>,
    <<0, 20, 32500000, 2149199, 16533>>,
    <<0, 20, 32500000, 2371826, 21506>>,
    <<0, 20, 37500000, 2144555, 17246>>,
    <<0, 20, 37500000, 2366126, 22488>>,
    <<0, 21, 16500000, 2414778, 15696>>,
    <<0, 21, 27500000, 2367947, 15990>>,
    <<0, 21, 27500000, 2607006, 20631>>,
    <<0, 22, 14000000, 2652677, 15413>>,
    <<0, 22, 16500000, 2601123, 16042>>,
    <<0, 23, 14000000, 2844105, 15573>>,
    <<1, 14, 750, 636196, 207032>>,
    <<1, 14, 750, 662937, 57931>>,
    <<1, 14, 750, 685928, 24785>>,
    <<1, 14, 750, 709658, 36822>>,
    <<1, 14, 750, 711022, 30431>>,
    <<1, 14, 750, 752837, 48578>>,
    <<1, 14, 750, 755870, 18492>>,
    <<1, 14, 750, 769429, 49619>>,
    <<1, 14, 750, 769532, 28827>>,
    <<1, 14, 750, 777024, 40995>>,
    <<1, 14, 750, 780329, 47097>>,
    <<1, 15, 50, 748682, 92150>>,
    <<1, 15, 50, 749482, 92915>>,
    <<1, 15, 50, 749882, 93718>>,
    <<1, 15, 50, 750082, 94112>>,
    <<1, 15, 50, 847450, 100319>>,
    <<1, 15, 50, 848490, 100557>>,
    <<1, 15, 50, 849010, 100752>>,
    <<1, 15, 50, 849270, 100864>>,
    <<1, 15, 500, 749332, 67892>>,
    <<1, 15, 500, 750132, 68116>>,
    <<1, 15, 500, 750532, 68750>>,
    <<1, 15, 500, 750732, 69059>>,
    <<1, 15, 500, 848100, 68020>>,
    <<1, 15, 500, 849140, 67798>>,
    <<1, 15, 500, 849660, 67763>>,
    <<1, 15, 500, 849920, 67761>>,
    <<1, 15, 750, 672181, 192730>>,
    <<1, 15, 750, 746842, 30247>>,
    <<1, 15, 750, 752082, 61010>>,
    <<1, 15, 750, 752722, 60892>>,
    <<1, 15, 750, 753042, 60873>>,
    <<1, 15, 750, 753202, 60872>>,
    <<1, 15, 750, 758543, 32859>>,
    <<1, 15, 750, 788757, 45394>>,
    <<1, 15, 750, 789397, 45267>>,
    <<1, 15, 750, 789717, 45240>>,
    <<1, 15, 750, 789877, 45370>>,
    <<1, 15, 750, 789957, 45486>>,
    <<1, 15, 750, 802100, 14834>>,
    <<1, 15, 750, 812657, 37242>>,
    <<1, 15, 750, 813489, 36551>>,
    <<1, 15, 750, 813905, 36285>>,
    <<1, 15, 750, 814113, 36168>>,
    <<1, 15, 750, 814217, 36113>>,
    <<1, 15, 750, 822023, 35215>>,
    <<1, 15, 750, 833829, 30756>>,
    <<1, 15, 750, 847643, 53140>>,
    <<1, 15, 750, 848475, 52384>>,
    <<1, 15, 750, 848891, 52095>>,
    <<1, 15, 750, 849099, 51968>>,
    <<1, 15, 750, 856562, 23147>>,
    <<1, 15, 750, 893534, 35109>>,
    <<1, 15, 750, 933424, 51659>>,
    <<1, 16, 50, 835977, 92445>>,
    <<1, 16, 50, 836937, 94094>>,
    <<1, 16, 50, 837417, 94887>>,
    <<1, 16, 50, 844097, 96770>>,
    <<1, 16, 50, 844897, 97275>>,
    <<1, 16, 50, 845297, 98022>>,
    <<1, 16, 50, 882890, 73782>>,
    <<1, 16, 50, 883690, 74773>>,
    <<1, 16, 50, 884090, 75482>>,
    <<1, 16, 50, 884290, 75830>>,
    <<1, 16, 50, 911258, 77294>>,
    <<1, 16, 50, 912298, 77473>>,
    <<1, 16, 50, 912818, 77631>>,
    <<1, 16, 50, 913078, 77724>>,
    <<1, 16, 50, 943613, 104651>>,
    <<1, 16, 50, 944861, 105130>>,
    <<1, 16, 50, 945485, 105435>>,
    <<1, 16, 50, 948526, 107469>>,
    <<1, 16, 50, 949566, 107662>>,
    <<1, 16, 50, 950086, 107832>>,
    <<1, 16, 500, 844747, 71625>>,
    <<1, 16, 500, 845547, 71801>>,
    <<1, 16, 500, 845947, 72207>>,
    <<1, 16, 500, 883540, 54336>>,
    <<1, 16, 500, 884340, 54867>>,
    <<1, 16, 500, 884740, 55428>>,
    <<1, 16, 500, 884940, 55702>>,
    <<1, 16, 500, 911908, 52578>>,
    <<1, 16, 500, 912948, 52354>>,
    <<1, 16, 500, 913468, 52310>>,
    <<1, 16, 500, 913728, 52303>>,
    <<1, 16, 500, 949176, 73641>>,
    <<1, 16, 500, 950216, 73404>>,
    <<1, 16, 500, 950736, 73359>>,
    <<1, 16, 750, 821535, 37281>>,
    <<1, 16, 750, 869188, 24641>>,
    <<1, 16, 750, 870005, 191198>>,
    <<1, 16, 750, 886290, 47516>>,
    <<1, 16, 750, 886930, 47378>>,
    <<1, 16, 750, 887250, 47344>>,
    <<1, 16, 750, 887410, 47335>>,
    <<1, 16, 750, 897809, 45863>>,
    <<1, 16, 750, 898641, 45909>>,
    <<1, 16, 750, 899057, 45889>>,
    <<1, 16, 750, 899265, 45871>>,
    <<1, 16, 750, 899369, 45860>>,
    <<1, 16, 750, 911451, 40110>>,
    <<1, 16, 750, 912283, 39429>>,
    <<1, 16, 750, 912699, 39166>>,
    <<1, 16, 750, 912907, 39049>>,
    <<1, 16, 750, 913255, 30099>>,
    <<1, 16, 750, 913685, 33133>>,
    <<1, 16, 750, 914325, 33757>>,
    <<1, 16, 750, 914645, 34043>>,
    <<1, 16, 750, 914805, 34181>>,
    <<1, 16, 750, 920714, 23720>>,
    <<1, 16, 750, 929749, 33009>>,
    <<1, 16, 750, 930389, 33629>>,
    <<1, 16, 750, 930709, 33912>>,
    <<1, 16, 750, 930869, 34049>>,
    <<1, 16, 750, 930949, 34115>>,
    <<1, 16, 750, 937585, 44460>>,
    <<1, 16, 750, 938417, 44518>>,
    <<1, 16, 750, 938833, 44503>>,
    <<1, 16, 750, 939041, 44487>>,
    <<1, 16, 750, 939506, 32748>>,
    <<1, 16, 750, 961390, 43097>>,
    <<1, 16, 750, 1039477, 50948>>,
    <<1, 16, 750, 1078304, 35876>>,
    <<1, 17, 50, 937662, 97423>>,
    <<1, 17, 50, 938622, 98963>>,
    <<1, 17, 50, 978573, 76022>>,
    <<1, 17, 50, 979533, 77528>>,
    <<1, 17, 50, 980013, 78252>>,
    <<1, 17, 50, 986693, 77615>>,
    <<1, 17, 50, 987493, 78376>>,
    <<1, 17, 50, 987893, 79045>>,
    <<1, 17, 50, 1001732, 44991>>,
    <<1, 17, 50, 1002772, 45740>>,
    <<1, 17, 50, 1003292, 46074>>,
    <<1, 17, 50, 1003552, 46233>>,
    <<1, 17, 50, 1011409, 82628>>,
    <<1, 17, 50, 1012657, 83049>>,
    <<1, 17, 50, 1013281, 83467>>,
    <<1, 17, 50, 1015626, 44359>>,
    <<1, 17, 50, 1016322, 83024>>,
    <<1, 17, 50, 1016426, 45421>>,
    <<1, 17, 50, 1016826, 45928>>,
    <<1, 17, 50, 1017362, 83172>>,
    <<1, 17, 50, 1017882, 83311>>,
    <<1, 17, 50, 1032694, 43932>>,
    <<1, 17, 50, 1033494, 44985>>,
    <<1, 17, 50, 1033894, 45487>>,
    <<1, 17, 50, 1034094, 45733>>,
    <<1, 17, 50, 1043994, 45424>>,
    <<1, 17, 50, 1045034, 46191>>,
    <<1, 17, 50, 1045554, 46533>>,
    <<1, 17, 50, 1050959, 112477>>,
    <<1, 17, 50, 1052207, 112909>>,
    <<1, 17, 50, 1094829, 45741>>,
    <<1, 17, 50, 1095629, 45054>>,
    <<1, 17, 50, 1096029, 44692>>,
    <<1, 17, 50, 1096229, 44507>>,
    <<1, 17, 50, 1134128, 89092>>,
    <<1, 17, 50, 1135168, 88350>>,
    <<1, 17, 50, 1135688, 87955>>,
    <<1, 17, 50, 1135948, 87753>>,
    <<1, 17, 500, 987343, 57305>>,
    <<1, 17, 500, 988143, 57629>>,
    <<1, 17, 500, 988543, 58159>>,
    <<1, 17, 500, 1002382, 43891>>,
    <<1, 17, 500, 1003422, 43673>>,
    <<1, 17, 500, 1003942, 43523>>,
    <<1, 17, 500, 1004202, 43440>>,
    <<1, 17, 500, 1016276, 35733>>,
    <<1, 17, 500, 1016972, 56811>>,
    <<1, 17, 500, 1017076, 36546>>,
    <<1, 17, 500, 1017476, 36928>>,
    <<1, 17, 500, 1018012, 56580>>,
    <<1, 17, 500, 1018532, 56530>>,
    <<1, 17, 500, 1033344, 35463>>,
    <<1, 17, 500, 1034144, 36269>>,
    <<1, 17, 500, 1034544, 36648>>,
    <<1, 17, 500, 1034744, 36832>>,
    <<1, 17, 500, 1044644, 41928>>,
    <<1, 17, 500, 1045684, 42164>>,
    <<1, 17, 500, 1046204, 42344>>,
    <<1, 17, 500, 1095479, 44745>>,
    <<1, 17, 500, 1096279, 44312>>,
    <<1, 17, 500, 1096679, 44077>>,
    <<1, 17, 500, 1096879, 43956>>,
    <<1, 17, 500, 1134778, 77606>>,
    <<1, 17, 500, 1135818, 77193>>,
    <<1, 17, 500, 1136338, 76962>>,
    <<1, 17, 500, 1136598, 76842>>,
    <<1, 17, 750, 915749, 749869>>,
    <<1, 17, 750, 969981, 493541>>,
    <<1, 17, 750, 999834, 1703991>>,
    <<1, 17, 750, 1001925, 50337>>,
    <<1, 17, 750, 1002757, 50321>>,
    <<1, 17, 750, 1003173, 50278>>,
    <<1, 17, 750, 1003381, 50250>>,
    <<1, 17, 750, 1019026, 34053>>,
    <<1, 17, 750, 1019666, 34619>>,
    <<1, 17, 750, 1019986, 34879>>,
    <<1, 17, 750, 1028059, 43932>>,
    <<1, 17, 750, 1028891, 43995>>,
    <<1, 17, 750, 1029307, 43988>>,
    <<1, 17, 750, 1029515, 43976>>,
    <<1, 17, 750, 1036094, 33900>>,
    <<1, 17, 750, 1036734, 34458>>,
    <<1, 17, 750, 1037054, 34714>>,
    <<1, 17, 750, 1037214, 34837>>,
    <<1, 17, 750, 1044187, 48215>>,
    <<1, 17, 750, 1045019, 48219>>,
    <<1, 17, 750, 1045435, 48184>>,
    <<1, 17, 750, 1054385, 773131>>,
    <<1, 17, 750, 1063489, 31729>>,
    <<1, 17, 750, 1064129, 32332>>,
    <<1, 17, 750, 1064449, 32607>>,
    <<1, 17, 750, 1064609, 32739>>,
    <<1, 17, 750, 1082456, 1107571>>,
    <<1, 17, 750, 1098229, 48390>>,
    <<1, 17, 750, 1098869, 48097>>,
    <<1, 17, 750, 1099189, 47935>>,
    <<1, 17, 750, 1099349, 47851>>,
    <<1, 17, 750, 1105652, 1030491>>,
    <<1, 17, 750, 1120679, 1016544>>,
    <<1, 17, 750, 1121511, 1004426>>,
    <<1, 17, 750, 1121927, 999328>>,
    <<1, 17, 750, 1122135, 996975>>,
    <<1, 17, 750, 1122239, 995842>>,
    <<1, 17, 750, 1125624, 209336>>,
    <<1, 17, 750, 1126264, 208038>>,
    <<1, 17, 750, 1126584, 207439>>,
    <<1, 17, 750, 1126744, 207151>>,
    <<1, 17, 750, 1134321, 75453>>,
    <<1, 17, 750, 1135153, 75179>>,
    <<1, 17, 750, 1135569, 75028>>,
    <<1, 17, 750, 1135777, 74951>>,
    <<1, 17, 750, 1139851, 416053>>,
    <<1, 17, 750, 1141688, 923441>>,
    <<1, 17, 750, 1142328, 917594>>,
    <<1, 17, 750, 1142648, 915005>>,
    <<1, 17, 750, 1142808, 913782>>,
    <<1, 17, 750, 1142888, 913187>>,
    <<1, 17, 750, 1150996, 1321441>>,
    <<1, 17, 750, 1160455, 252292>>,
    <<1, 17, 750, 1161287, 249780>>,
    <<1, 17, 750, 1161703, 248696>>,
    <<1, 17, 750, 1161911, 248190>>,
    <<1, 17, 750, 1272326, 755734>>,
    <<1, 18, 50, 1088646, 80342>>,
    <<1, 18, 50, 1089606, 81765>>,
    <<1, 18, 50, 1107205, 43497>>,
    <<1, 18, 50, 1108453, 43915>>,
    <<1, 18, 50, 1109077, 44085>>,
    <<1, 18, 50, 1112118, 47725>>,
    <<1, 18, 50, 1113158, 47970>>,
    <<1, 18, 50, 1113678, 48263>>,
    <<1, 18, 50, 1119117, 44663>>,
    <<1, 18, 50, 1120077, 45809>>,
    <<1, 18, 50, 1122743, 89236>>,
    <<1, 18, 50, 1123991, 89623>>,
    <<1, 18, 50, 1127237, 44005>>,
    <<1, 18, 50, 1128037, 44987>>,
    <<1, 18, 50, 1137189, 44182>>,
    <<1, 18, 50, 1138149, 45319>>,
    <<1, 18, 50, 1138629, 45865>>,
    <<1, 18, 50, 1139790, 42304>>,
    <<1, 18, 50, 1140830, 42996>>,
    <<1, 18, 50, 1141350, 43305>>,
    <<1, 18, 50, 1145309, 43120>>,
    <<1, 18, 50, 1146109, 44090>>,
    <<1, 18, 50, 1146509, 44554>>,
    <<1, 18, 50, 1151953, 43201>>,
    <<1, 18, 50, 1153201, 43630>>,
    <<1, 18, 50, 1156866, 47810>>,
    <<1, 18, 50, 1157906, 48487>>,
    <<1, 18, 50, 1174242, 45002>>,
    <<1, 18, 50, 1175042, 45991>>,
    <<1, 18, 50, 1175442, 46462>>,
    <<1, 18, 50, 1202979, 45055>>,
    <<1, 18, 50, 1203939, 44301>>,
    <<1, 18, 50, 1204419, 43906>>,
    <<1, 18, 50, 1211099, 50600>>,
    <<1, 18, 50, 1211899, 49923>>,
    <<1, 18, 50, 1212299, 49569>>,
    <<1, 18, 50, 1226049, 865304>>,
    <<1, 18, 50, 1226849, 862689>>,
    <<1, 18, 50, 1227249, 861596>>,
    <<1, 18, 50, 1237712, 1803199>>,
    <<1, 18, 50, 1238752, 1792771>>,
    <<1, 18, 50, 1239272, 1788336>>,
    <<1, 18, 50, 1239532, 1786277>>,
    <<1, 18, 50, 1240032, 303194>>,
    <<1, 18, 50, 1240832, 301719>>,
    <<1, 18, 50, 1241232, 301020>>,
    <<1, 18, 50, 1247389, 91390>>,
    <<1, 18, 50, 1248637, 90559>>,
    <<1, 18, 50, 1249261, 90118>>,
    <<1, 18, 50, 1252302, 94985>>,
    <<1, 18, 50, 1253342, 94217>>,
    <<1, 18, 50, 1253862, 93816>>,
    <<1, 18, 50, 1257100, 1393440>>,
    <<1, 18, 50, 1257900, 1388239>>,
    <<1, 18, 50, 1258300, 1385908>>,
    <<1, 18, 50, 1258500, 1384801>>,
    <<1, 18, 50, 1279974, 426006>>,
    <<1, 18, 50, 1281014, 423440>>,
    <<1, 18, 50, 1281534, 422292>>,
    <<1, 18, 50, 1342761, 799924>>,
    <<1, 18, 50, 1343561, 797503>>,
    <<1, 18, 50, 1343961, 796493>>,
    <<1, 18, 50, 1344161, 796032>>,
    <<1, 18, 500, 1112768, 49003>>,
    <<1, 18, 500, 1113808, 48745>>,
    <<1, 18, 500, 1114328, 48582>>,
    <<1, 18, 500, 1127887, 36127>>,
    <<1, 18, 500, 1128687, 36874>>,
    <<1, 18, 500, 1140440, 42537>>,
    <<1, 18, 500, 1141480, 42358>>,
    <<1, 18, 500, 1142000, 42231>>,
    <<1, 18, 500, 1145959, 35624>>,
    <<1, 18, 500, 1146759, 36362>>,
    <<1, 18, 500, 1147159, 36710>>,
    <<1, 18, 500, 1157516, 46082>>,
    <<1, 18, 500, 1158556, 45836>>,
    <<1, 18, 500, 1174892, 35488>>,
    <<1, 18, 500, 1175692, 36255>>,
    <<1, 18, 500, 1176092, 36615>>,
    <<1, 18, 500, 1211749, 48962>>,
    <<1, 18, 500, 1212549, 48525>>,
    <<1, 18, 500, 1212949, 48291>>,
    <<1, 18, 500, 1226699, 661498>>,
    <<1, 18, 500, 1227499, 658666>>,
    <<1, 18, 500, 1227899, 657464>>,
    <<1, 18, 500, 1238362, 1336443>>,
    <<1, 18, 500, 1239402, 1326286>>,
    <<1, 18, 500, 1239922, 1321989>>,
    <<1, 18, 500, 1240182, 1319999>>,
    <<1, 18, 500, 1240682, 243298>>,
    <<1, 18, 500, 1241482, 242048>>,
    <<1, 18, 500, 1241882, 241461>>,
    <<1, 18, 500, 1252952, 83010>>,
    <<1, 18, 500, 1253992, 82552>>,
    <<1, 18, 500, 1254512, 82305>>,
    <<1, 18, 500, 1257750, 1091468>>,
    <<1, 18, 500, 1258550, 1086485>>,
    <<1, 18, 500, 1258950, 1084265>>,
    <<1, 18, 500, 1259150, 1083212>>,
    <<1, 18, 500, 1280624, 323247>>,
    <<1, 18, 500, 1281664, 320969>>,
    <<1, 18, 500, 1282184, 319966>>,
    <<1, 18, 500, 1343411, 610665>>,
    <<1, 18, 500, 1344211, 608030>>,
    <<1, 18, 500, 1344611, 606914>>,
    <<1, 18, 500, 1344811, 606399>>,
    <<1, 18, 750, 1139983, 50664>>,
    <<1, 18, 750, 1140815, 50639>>,
    <<1, 18, 750, 1141231, 50597>>,
    <<1, 18, 750, 1177642, 32260>>,
    <<1, 18, 750, 1178282, 32794>>,
    <<1, 18, 750, 1178602, 33038>>,
    <<1, 18, 750, 1229449, 554021>>,
    <<1, 18, 750, 1230089, 550383>>,
    <<1, 18, 750, 1230409, 548821>>,
    <<1, 18, 750, 1237905, 1030597>>,
    <<1, 18, 750, 1238737, 1018352>>,
    <<1, 18, 750, 1239153, 1013200>>,
    <<1, 18, 750, 1239361, 1010821>>,
    <<1, 18, 750, 1243432, 217053>>,
    <<1, 18, 750, 1244072, 215710>>,
    <<1, 18, 750, 1244392, 215093>>,
    <<1, 18, 750, 1260500, 927018>>,
    <<1, 18, 750, 1261140, 921109>>,
    <<1, 18, 750, 1261460, 918492>>,
    <<1, 18, 750, 1261620, 917255>>,
    <<1, 18, 750, 1264039, 653852>>,
    <<1, 18, 750, 1264871, 646424>>,
    <<1, 18, 750, 1265287, 643289>>,
    <<1, 18, 750, 1265495, 641839>>,
    <<1, 18, 750, 1280167, 263694>>,
    <<1, 18, 750, 1280999, 261049>>,
    <<1, 18, 750, 1281415, 259913>>,
    <<1, 18, 750, 1287895, 579525>>,
    <<1, 18, 750, 1288535, 575922>>,
    <<1, 18, 750, 1288855, 574316>>,
    <<1, 18, 750, 1289015, 573555>>,
    <<1, 18, 750, 1346161, 511103>>,
    <<1, 18, 750, 1346801, 507715>>,
    <<1, 18, 750, 1347121, 506260>>,
    <<1, 18, 750, 1347281, 505585>>,
    <<1, 19, 50, 1223861, 46650>>,
    <<1, 19, 50, 1225109, 46998>>,
    <<1, 19, 50, 1236998, 44094>>,
    <<1, 19, 50, 1253071, 41404>>,
    <<1, 19, 50, 1254319, 41798>>,
    <<1, 19, 50, 1256074, 43043>>,
    <<1, 19, 50, 1257034, 44099>>,
    <<1, 19, 50, 1257984, 51159>>,
    <<1, 19, 50, 1259024, 50637>>,
    <<1, 19, 50, 1271095, 46106>>,
    <<1, 19, 50, 1286545, 46166>>,
    <<1, 19, 50, 1287505, 47234>>,
    <<1, 19, 50, 1294665, 42480>>,
    <<1, 19, 50, 1295465, 43384>>,
    <<1, 19, 50, 1325519, 50053>>,
    <<1, 19, 50, 1326479, 49314>>,
    <<1, 19, 50, 1341489, 921251>>,
    <<1, 19, 50, 1342449, 919206>>,
    <<1, 19, 50, 1349609, 876904>>,
    <<1, 19, 50, 1350409, 874216>>,
    <<1, 19, 50, 1355990, 316563>>,
    <<1, 19, 50, 1356295, 1951625>>,
    <<1, 19, 50, 1356950, 315167>>,
    <<1, 19, 50, 1357543, 1942750>>,
    <<1, 19, 50, 1358167, 1938955>>,
    <<1, 19, 50, 1361208, 1803474>>,
    <<1, 19, 50, 1362248, 1792930>>,
    <<1, 19, 50, 1362768, 1788452>>,
    <<1, 19, 50, 1364110, 312956>>,
    <<1, 19, 50, 1364910, 311458>>,
    <<1, 19, 50, 1371833, 97526>>,
    <<1, 19, 50, 1373081, 96678>>,
    <<1, 19, 50, 1374062, 1459068>>,
    <<1, 19, 50, 1375022, 1454571>>,
    <<1, 19, 50, 1375502, 1452544>>,
    <<1, 19, 50, 1382182, 1389426>>,
    <<1, 19, 50, 1382982, 1384192>>,
    <<1, 19, 50, 1383382, 1381851>>,
    <<1, 19, 50, 1388880, 1136284>>,
    <<1, 19, 50, 1389920, 1129670>>,
    <<1, 19, 50, 1390440, 1126835>>,
    <<1, 19, 50, 1401043, 459199>>,
    <<1, 19, 50, 1402291, 456868>>,
    <<1, 19, 50, 1405956, 439893>>,
    <<1, 19, 50, 1406996, 437226>>,
    <<1, 19, 50, 1411115, 863612>>,
    <<1, 19, 50, 1411915, 860247>>,
    <<1, 19, 50, 1412315, 858724>>,
    <<1, 19, 50, 1464685, 853678>>,
    <<1, 19, 50, 1465645, 851787>>,
    <<1, 19, 50, 1466125, 851014>>,
    <<1, 19, 50, 1472805, 813102>>,
    <<1, 19, 50, 1473605, 810605>>,
    <<1, 19, 50, 1474005, 809560>>,
    <<1, 19, 500, 1258634, 50754>>,
    <<1, 19, 500, 1259674, 50513>>,
    <<1, 19, 500, 1295315, 34638>>,
    <<1, 19, 500, 1296115, 35333>>,
    <<1, 19, 500, 1350259, 673853>>,
    <<1, 19, 500, 1351059, 670962>>,
    <<1, 19, 500, 1361858, 1345832>>,
    <<1, 19, 500, 1362898, 1335545>>,
    <<1, 19, 500, 1363418, 1331196>>,
    <<1, 19, 500, 1364760, 252138>>,
    <<1, 19, 500, 1365560, 250852>>,
    <<1, 19, 500, 1382832, 1093207>>,
    <<1, 19, 500, 1383632, 1088180>>,
    <<1, 19, 500, 1384032, 1085943>>,
    <<1, 19, 500, 1389530, 851830>>,
    <<1, 19, 500, 1390570, 845477>>,
    <<1, 19, 500, 1391090, 842774>>,
    <<1, 19, 500, 1406606, 336090>>,
    <<1, 19, 500, 1407646, 333695>>,
    <<1, 19, 500, 1411765, 682954>>,
    <<1, 19, 500, 1412565, 679797>>,
    <<1, 19, 500, 1412965, 678378>>,
    <<1, 19, 500, 1473455, 624095>>,
    <<1, 19, 500, 1474255, 621400>>,
    <<1, 19, 500, 1474655, 620257>>,
    <<1, 19, 750, 1389073, 672464>>,
    <<1, 19, 750, 1389905, 664825>>,
    <<1, 19, 750, 1390321, 661600>>,
    <<1, 19, 750, 1414515, 590893>>,
    <<1, 19, 750, 1415155, 587189>>,
    <<1, 19, 750, 1415475, 585539>>,
    <<1, 20, 50, 1471319, 934692>>,
    <<1, 20, 50, 1486061, 1954076>>,
    <<1, 20, 50, 1486338, 327401>>,
    <<1, 20, 50, 1487309, 1945050>>,
    <<1, 20, 50, 1505414, 1457620>>,
    <<1, 20, 50, 1506374, 1453074>>,
    <<1, 20, 50, 1515271, 1232366>>,
    <<1, 20, 50, 1516519, 1226632>>,
    <<1, 20, 50, 1520184, 1152714>>,
    <<1, 20, 50, 1521224, 1145942>>,
    <<1, 20, 50, 1533295, 474683>>,
    <<1, 20, 50, 1535885, 906972>>,
    <<1, 20, 50, 1536845, 903992>>,
    <<1, 20, 50, 1544005, 873838>>,
    <<1, 20, 50, 1544805, 870422>>,
    <<1, 20, 50, 1600999, 868290>>,
    <<1, 20, 50, 1601959, 866278>>,
    <<1, 20, 500, 1520834, 869126>>,
    <<1, 20, 500, 1521874, 862601>>,
    <<1, 20, 500, 1544655, 693559>>,
    <<1, 20, 500, 1545455, 690338>>
  }

ErrorRateTable ==
    [key \in {<<r[1], r[2], r[3], r[4]>> : r \in ErrorRateRows} |->
        (CHOOSE r \in ErrorRateRows : <<r[1], r[2], r[3], r[4]>> = key)[5]]

(***************************************************************************)
(* State                                                                   *)
(***************************************************************************)
VARIABLES
    \* the classifier applied to a profile
    cl_name,         \* the function name the profile's operation came from
    cl_info,         \* the profile handed to get_query_num
    cl_called,       \* get_query_num has returned
    cl_result,       \* its return value
    \* the front end of sw_stack_for_hw on one query string
    query_string,    \* the statement text, a sequence of lexemes
    canon_string,    \* the same words with one blank between two of them
    ophash_fallthrough, \* what hw_ophashmap yields for an unknown name
    word_array,      \* the words strtok found
    ex,              \* locals and profile of extract_operation_info
    ex_pc,           \* "strtok", "extract", "returned" or "fault"
    \* one call of get_hw_expectation_time
    hw_query,        \* user_query_num
    hw_dataset,      \* user_dataset
    hw_pagenum,      \* user_pagenum
    hw_called,       \* the call has returned
    hw_time          \* the terms of the estimate and their total

varsClassify == <<cl_name, cl_info, cl_called, cl_result>>

\* The six function names hw_ophashmap knows, in the order it tests them.
OperationNames ==
    {"madlib.linregr_predict", "madlib.logregr_predict_prob",
     "madlib.svm_predict", "madlib.mlp_predict", "madlib.tree_predict",
     "madlib.forest_predict"}

RegressionNames == {"madlib.linregr_predict", "madlib.logregr_predict_prob"}

Profile(name, fallthrough, support, filter, aggr) ==
    [init_operation_info EXCEPT
        !.hw_support = support,
        !.hw_operation = hw_ophashmap(name, fallthrough),
        !.filter_flag = filter,
        !.aggr_flag = aggr]

ClassifyIdle ==
    /\ cl_name = NULL
    /\ cl_info = init_operation_info
    /\ cl_called = FALSE
    /\ cl_result = -1

InitClassify ==
    \* the six names and one hw_ophashmap does not know
    /\ cl_name \in OperationNames \cup {"madlib.other"}
    /\ \E fallthrough \in OphashFallthrough, support, filter, aggr \in BOOLEAN :
          cl_info = Profile(cl_name, fallthrough, support, filter, aggr)
    /\ cl_called = FALSE
    /\ cl_result = -1

\* op_info.hw_query_num = get_query_num(op_info)
Classify ==
    /\ ~cl_called
    /\ cl_called' = TRUE
    /\ cl_result' = get_query_num(cl_info)
    /\ UNCHANGED <<cl_name, cl_info>>


varsExtract == <<query_string, canon_string, ophash_fallthrough, word_array, ex, ex_pc>>

\* The largest number of extra separator characters put at one place of a
\* statement.
MaxPad == 1

\* The statements of the modelled workload, as their words.
LinregrWords ==
    <<"SELECT", "madlib.linregr_predict", "coef", "ARRAY", "1", "x1",
      "FROM", "m", "d">>

LogregrWords ==
    <<"SELECT", "madlib.logregr_predict_prob", "coef", "ARRAY", "1", "x1",
      "FROM", "m", "d">>

WhereWords == <<"WHERE", "d.x1", ">", "3">>

Templates ==
    { LinregrWords,
      LinregrWords \o WhereWords,
      LogregrWords,
      LogregrWords \o WhereWords,
      <<"SELECT", "AVG", "p.pred", "FROM">> \o LinregrWords \o WhereWords,
      <<"SELECT", "madlib.svm_predict", "m", "d", "id", "out">>,
      <<"SELECT", "madlib.mlp_predict", "m", "d", "id", "out", "y">>,
      <<"SELECT", "madlib.tree_predict", "m", "d", "out", "y">>,
      <<"SELECT", "madlib.forest_predict", "m", "d", "out", "y">>,
      <<"SELECT", "x1", "FROM", "d">>,
      <<"EXPLAIN", "SELECT", "x1", "FROM", "d">>,
      LinregrWords \o <<"GROUP", "BY", "x1">>,
      LinregrWords \o <<"ORDER", "BY", "x1">>,
      LinregrWords \o WhereWords \o <<"GROUP", "BY", "x1">>,
      <<"SELECT", "madlib.svm_predict", "m", "d", "id", "out",
        "ORDER", "BY", "id">>,
      LinregrWords \o <<"GROUP_BY", "x1">>,
      LinregrWords \o <<"ORDER_BY", "x1">>,
      <<"SELECT", "madlib.linregr_predict", "ARRAY", "m.a", "m.b",
        "ARRAY", "1", "x1", "FROM", "m", "d">>,
      <<"SELECT", "madlib.linregr_predict", "ARRAY", "m.a", "m.b", "m.c",
        "ARRAY", "1", "x1", "FROM", "m", "d">>,
      <<"SELECT", "madlib.logregr_predict_prob", "coef", "coef",
        "FROM", "m", "d">>,
      <<"SELECT", "madlib.logregr_predict_prob", "ARRAY", "m.a", "coef",
        "FROM", "m", "d">> }

\* The runs of 1..MaxPad separator characters.
RECURSIVE PadRuns(_)
PadRuns(n) ==
    IF n = 0 THEN {<< >>}
    ELSE LET shorter == PadRuns(n - 1)
         IN  shorter \cup {Append(r, c) : r \in {x \in shorter : Len(x) = n - 1},
                                          c \in Delimiters}

\* The canonical text of a statement: its words, one blank between two.
RECURSIVE Canonical(_)
Canonical(words) ==
    IF Len(words) = 0 THEN << >>
    ELSE IF Len(words) = 1 THEN words
    ELSE <<Head(words), " ">> \o Canonical(Tail(words))

\* The canonical text with the run pad added in front of word number gap + 1
\* (after the last word when gap = Len(words)).
Padded(words, gap, pad) ==
    LET canon == Canonical(words)
        cut == IF gap = 0 THEN 0
               ELSE IF gap = Len(words) THEN Len(canon)
               ELSE 2 * gap - 1
    IN  SubSeq(canon, 1, cut) \o pad \o SubSeq(canon, cut + 1, Len(canon))

ExtractStart ==
    [i |-> 0, query_cluster |-> 0, inhib |-> 0,
     info |-> init_operation_info, status |-> "run"]

ExtractIdle ==
    /\ query_string = << >>
    /\ canon_string = << >>
    /\ ophash_fallthrough = NONE
    /\ word_array = << >>
    /\ ex = ExtractStart
    /\ ex_pc = "idle"

InitExtract ==
    /\ \E words \in Templates :
          /\ canon_string = Canonical(words)
          /\ \E gap \in 0..Len(words), pad \in PadRuns(MaxPad) :
                query_string = Padded(words, gap, pad)
    /\ ophash_fallthrough \in OphashFallthrough
    /\ word_array = << >>
    /\ ex = ExtractStart
    /\ ex_pc = "strtok"

\* The strtok loop of sw_stack_for_hw, then init_operation_info.
StrTok ==
    /\ ex_pc = "strtok"
    /\ word_array' = Tokenize(query_string)
    /\ ex' = ExtractStart
    /\ ex_pc' = "extract"
    /\ UNCHANGED <<query_string, canon_string, ophash_fallthrough>>

\* One iteration of the loop of extract_operation_info.
ExtractStep ==
    /\ ex_pc = "extract"
    /\ ex.status = "run"
    /\ ex.i < Len(word_array)
    /\ ex' = ExtractIter(word_array, ex, ophash_fallthrough)
    /\ UNCHANGED <<query_string, canon_string, ophash_fallthrough, word_array, ex_pc>>

\* extract_operation_info returns: by a return statement, by the inhib
\* break, or because i reached word_size.
ExtractReturn ==
    /\ ex_pc = "extract"
    /\ ex.status # "fault"
    /\ (ex.status = "done" \/ ~(ex.i < Len(word_array)))
    /\ ex' = [ex EXCEPT !.status = "done"]
    /\ ex_pc' = "returned"
    /\ UNCHANGED <<query_string, canon_string, ophash_fallthrough, word_array>>

\* extract_operation_info read word_array past word_size.
ExtractFault ==
    /\ ex_pc = "extract"
    /\ ex.status = "fault"
    /\ ex_pc' = "fault"
    /\ UNCHANGED <<query_string, canon_string, ophash_fallthrough, word_array, ex>>

varsHw == <<hw_query, hw_dataset, hw_pagenum, hw_called, hw_time>>

\* A dataset category sw_stack_for_hw can pass.
Datasets == {HIGGS, FOREST, WILT, HABERMAN}

\* Page counts of data tables: one page, the edges of the five size tiers,
\* and tables of one and two full host iterations and more.
PageNums ==
    {1, 2, 10, 11, 12, 128, 129, 130, 1309, 1310, 13107, 13108, 40000,
     65535, 65536, 200000, 262142, 262144, 300000, 524290, 600000}

NoEstimate ==
    [host_iteration |-> 0, page_iteration |-> 0, createbuffer |-> 0,
     addressmap |-> 0, ssd2fpga |-> 0, setkernel |-> 0, com |-> 0, dma |-> 0,
     overhead |-> 0, fpga2host |-> 0, total |-> 0]

HwIdle ==
    /\ hw_query = Q1
    /\ hw_dataset = HIGGS
    /\ hw_pagenum = 0
    /\ hw_called = FALSE
    /\ hw_time = NoEstimate

InitHw ==
    /\ hw_query \in QueryClasses
    /\ hw_dataset \in Datasets
    /\ hw_pagenum \in PageNums
    /\ hw_called = FALSE
    /\ hw_time = NoEstimate

\* double hw_expectation_time = get_hw_expectation_time(query_num,
\* dataset_num, page_num)
Estimate ==
    /\ ~hw_called
    /\ hw_called' = TRUE
    /\ hw_time' = get_hw_expectation_time(hw_query, hw_dataset, hw_pagenum)
    /\ UNCHANGED <<hw_query, hw_dataset, hw_pagenum>>

(***************************************************************************)
(* adjust_range, one loop iteration at a time                              *)
(***************************************************************************)
VARIABLES
    adj_seeded,      \* the buckets are the seeded ones of class adj_class
    adj_class,       \* the query class the buckets belong to
    adj_call,        \* 1: the call on (near, mid), 2: the call on (mid, far)
    adj_data1,       \* argument data_num1 / exec_time1
    adj_data2,       \* argument data_num2 / exec_time2
    adj_len1,        \* *data1_len on entry
    adj_len2,        \* *data2_len on entry
    adj_first,       \* argument first_flag
    adj,             \* the locals of adjust_range
    adj_pc,          \* "idle", "call", "run" or "done"
    adj_out          \* what the call handed out

varsAdjust == <<adj_seeded, adj_class, adj_call, adj_data1, adj_data2,
                adj_len1, adj_len2, adj_first, adj, adj_pc, adj_out>>

\* the shortest and the longest bucket handed to adjust_range
MinBucketLen == 3
MaxBucketLen == 5

\* the error rates get_avg_error may return for samples that are not the
\* seeded ones: good enough to stop on, and two that are not
AdjRates == {2000, 6000, 8000}

\* bucket k of class q as get_init_values fills it
Samples(nums, times, len) == [i \in 1..len |-> <<nums[i], times[i]>>]

\* the near bucket of every class seeded with the times of the first class
init_bucket1_of_first(q) ==
    Samples(data_num1_saved, exec_time1_saved[1], data1_len_saved)

init_bucket1(q) ==
    Samples(data_num1_saved, exec_time1_saved[q + 1], data1_len_saved)

init_bucket2(q) ==
    Samples(data_num2_saved, exec_time2_saved[q + 1], data2_len_saved)

init_bucket3(q) ==
    Samples(data_num3_saved, exec_time3_saved[q + 1], data3_len_saved)

\* len samples that were never seeded, the first of size first
Unseeded(first, len) == [i \in 1..len |-> <<first + i - 1, 10 * (first + i - 1)>>]

\* a number that tells apart the sample sequences of ErrorRateTable
RECURSIVE Checksum(_, _)
Checksum(arr, len) ==
    IF len = 0 THEN 0
    ELSE Checksum(arr, len - 1)
           + len * ((Cell(arr, len - 1)[1] % 9973) + (Cell(arr, len - 1)[2] % 9973))

\* What get_avg_error may return as the error rate of the first len cells
\* of arr: the computed rate if the samples are known ones, any of
\* AdjRates if they are not.
get_avg_error(known, first_flag, arr, len) ==
    LET key == <<IF first_flag THEN 1 ELSE 0, len, Cell(arr, 0)[1],
                 Checksum(arr, len)>>
    IN  IF known /\ key \in DOMAIN ErrorRateTable
        THEN {ErrorRateTable[key]}
        ELSE AdjRates

NoAdjust == [pc |-> "none"]
NoResult == [data1_len |-> 0, data2_len |-> 0]

AdjustIdle ==
    /\ adj_seeded = FALSE
    /\ adj_class = Q1
    /\ adj_call = 0
    /\ adj_data1 = <<>>
    /\ adj_data2 = <<>>
    /\ adj_len1 = 0
    /\ adj_len2 = 0
    /\ adj_first = FALSE
    /\ adj = NoAdjust
    /\ adj_pc = "idle"
    /\ adj_out = NoResult

\* Either two buckets that were never seeded, or the start-up call on the
\* seeded near and mid buckets of one class.
InitAdjust ==
    /\ adj_seeded \in BOOLEAN
    /\ adj_class \in QueryClasses
    /\ adj_call = 1
    /\ adj_first \in BOOLEAN
    /\ IF adj_seeded
       THEN /\ adj_first = TRUE
            /\ adj_data1 = init_bucket1(adj_class)
            /\ adj_data2 = init_bucket2(adj_class)
       ELSE /\ adj_class = Q1
            /\ \E l \in MinBucketLen..MaxBucketLen, r \in MinBucketLen..MaxBucketLen,
                  gap \in 0..1 :
                   /\ adj_data1 = Unseeded(1, l)
                   /\ adj_data2 = Unseeded(l + gap, r)
    /\ adj_len1 = Len(adj_data1)
    /\ adj_len2 = Len(adj_data2)
    /\ adj = NoAdjust
    /\ adj_pc = "call"
    /\ adj_out = NoResult

\* adjust_range up to its first loop
AdjustEnter ==
    /\ adj_pc = "call"
    /\ \E dl \in get_avg_error(adj_seeded, adj_first, adj_data1, adj_len1),
          dr \in get_avg_error(adj_seeded, FALSE, adj_data2, adj_len2) :
           adj' = AdjustStart(adj_data1, adj_data2, adj_len1, adj_len2,
                              adj_first, dl, dr)
    /\ adj_pc' = "run"
    /\ UNCHANGED <<adj_seeded, adj_class, adj_call, adj_data1, adj_data2,
                   adj_len1, adj_len2, adj_first, adj_out>>

\* one iteration of the loop of phase 1
Phase1Step ==
    /\ adj_pc = "run"
    /\ adj.pc = "phase1"
    /\ LET moved == GrowLeft(adj.p1.b)
       IN  \E le \in get_avg_error(adj_seeded, adj_first,
                                   moved.left, moved.left_len),
              re \in get_avg_error(adj_seeded, FALSE,
                                   moved.right, moved.right_len) :
               adj' = Phase1Iter(adj, le, re)
    /\ UNCHANGED <<adj_seeded, adj_class, adj_call, adj_data1, adj_data2,
                   adj_len1, adj_len2, adj_first, adj_pc, adj_out>>

\* one iteration of the loop of phase 2
Phase2Step ==
    /\ adj_pc = "run"
    /\ adj.pc = "phase2"
    /\ LET moved == GrowRight(adj.p2.b)
       IN  \E le \in get_avg_error(adj_seeded, adj_first,
                                   moved.left, moved.left_len),
              re \in get_avg_error(adj_seeded, FALSE,
                                   moved.right, moved.right_len) :
               adj' = Phase2Iter(adj, le, re)
    /\ UNCHANGED <<adj_seeded, adj_class, adj_call, adj_data1, adj_data2,
                   adj_len1, adj_len2, adj_first, adj_pc, adj_out>>

\* the comparison of the two phases and the hand-out
AdjustReturn ==
    /\ adj_pc = "run"
    /\ adj.pc = "final"
    /\ adj_out' = AdjustResult(adj)
    /\ adj_pc' = "done"
    /\ UNCHANGED <<adj_seeded, adj_class, adj_call, adj_data1, adj_data2,
                   adj_len1, adj_len2, adj_first, adj>>

\* The start-up loop of PostgresMain goes on to its second call: the mid
\* bucket the first call handed out, and the seeded far bucket.
BootSecondCall ==
    /\ adj_pc = "done"
    /\ adj_seeded
    /\ adj_call = 1
    /\ adj_call' = 2
    /\ adj_data1' = adj_out.min_right
    /\ adj_len1' = adj_out.data2_len
    /\ adj_data2' = init_bucket3(adj_class)
    /\ adj_len2' = data3_len_saved
    /\ adj_first' = FALSE
    /\ adj_pc' = "call"
    /\ UNCHANGED <<adj_seeded, adj_class, adj, adj_out>>

(***************************************************************************)
(* The worker loop of PostgresMain                                         *)
(*                                                                         *)
(* data1[q] stands for the pair data_num1[q] / exec_time1[q], and so on.   *)
(***************************************************************************)
VARIABLES
    inited,              \* the start-up block has run
    data1, data2, data3, \* per class: the near, mid and far bucket
    data1_len, data2_len, data3_len,
    exec_coef1, exec_coef2, exec_coef3,
    query_num_recorded, query_num,
    start_time_recorded,
    num_rows_recorded, num_rows,
    command,             \* the statement ReadCommand returned, and its table
    report,              \* what sw_stack_for_hw printed for it
    boot_i,              \* the loop variable i of the start-up block
    add_locals,          \* locals of add_new_data that outlive its first call
    commands_read,       \* how many commands were read
    worker_pc            \* "read", "boot", "start", "exec", "feedback",
                         \* "add" or "crashed"; "idle" if there is no worker

varsWorker == <<inited, data1, data2, data3, data1_len, data2_len, data3_len,
                exec_coef1, exec_coef2, exec_coef3,
                query_num_recorded, query_num, start_time_recorded,
                num_rows_recorded, num_rows, command, report, boot_i,
                add_locals, commands_read, worker_pc>>

\* no statement is taken to run on the CPU
never_cpu_used == FALSE

\* static bool cpu_used = true, never written
cpu_used == TRUE

\* how many commands the worker reads
MaxCommands == 2

\* rows on a page of the tables that are queried
RowsPerPage == 100

\* The data tables: pages of the relation file, rows on its first and on
\* its last page, and the time in 0.01 ms a statement takes on it.
Table(pages, elapsed) ==
    [page_num |-> pages, first_page_size |-> RowsPerPage,
     last_page_size |-> RowsPerPage, elapsed |-> elapsed]

Tables ==
    << Table(1, 200), Table(10, 400), Table(140, 2000), Table(2000, 6000),
       Table(20000, 45000), Table(40000, 700000), Table(2000000, 9000000),
       Table(28000, 60001) >>

\* The commands a client sends: a statement and the table it names.
Commands ==
    {[words |-> LinregrWords, table |-> Tables[k]] : k \in 1..8}
        \cup {[words |-> LogregrWords, table |-> Tables[k]] : k \in {3, 6}}
        \cup {[words |-> <<"SELECT", "x1", "FROM", "d">>, table |-> Tables[2]]}
        \cup {[words |-> <<"INSERT", "INTO", "d", "VALUES", "1">>,
                table |-> Tables[3]]}

\* get_data_num: the rows of the table, from its first and last page
get_data_num(table) ==
    IF table.page_num = 1 THEN table.first_page_size
    ELSE table.first_page_size * (table.page_num - 1) + table.last_page_size

\* num_rows / 1000 in the unit of the stored sizes
SizeOfRows(rows) == rows \div 2

\* the dataset category sw_stack_for_hw derives from the column count
dataset_num(data_col_len) ==
    IF data_col_len > 17 THEN HIGGS
    ELSE IF data_col_len > 8 THEN FOREST
    ELSE IF data_col_len > 4 THEN WILT
    ELSE HABERMAN

\* the choice of the coefficients with a size equal to a first size going
\* to the bucket above
PredictingCoefBelow(size, first2, first3) ==
    IF size < first2 THEN 1
    ELSE IF size < first3 THEN 2
    ELSE 3

\* which coefficients predict the CPU time of a table of the given size
PredictingCoef(size, first2, first3) ==
    IF size <= first2 THEN 1
    ELSE IF size <= first3 THEN 2
    ELSE 3

\* The test on the three lengths with >= in the place of >.
EnoughDataFromThree(len1, len2, len3) ==
    /\ len1 >= ADJ_MIN_DATANUM
    /\ len2 >= ADJ_MIN_DATANUM
    /\ len3 >= ADJ_MIN_DATANUM

\* the test before a prediction is made
EnoughData(len1, len2, len3) ==
    /\ len1 > ADJ_MIN_DATANUM
    /\ len2 > ADJ_MIN_DATANUM
    /\ len3 > ADJ_MIN_DATANUM

\* The comparison of the two predictions with the branches exchanged on a
\* tie.
FasterBackendTieToCpu(cpu, hw) == IF cpu <= hw THEN "use CPU" ELSE "use HW"

\* the comparison of the two predictions, both in microseconds
FasterBackend(cpu, hw) == IF cpu < hw THEN "use CPU" ELSE "use HW"

\* what the predictor prints
Predictor(len1, len2, len3, cpu, hw) ==
    IF EnoughData(len1, len2, len3) THEN FasterBackend(cpu, hw)
    ELSE "not enough data gathered"

\* polyval on doubles is not computed: the CPU prediction is one of these,
\* in microseconds, where hw is the prediction for the accelerator
CpuPredictions(hw) == {hw - 1, hw, hw + 1}

\* a report as if a backend had been chosen
ReportOfHw == [backend |-> "use HW", cpu |-> 2, hw |-> 1, coef |-> 1]

NoReport == [backend |-> "none", cpu |-> 0, hw |-> 0, coef |-> 0]
NoCoef == [fit |-> UninitCoef, freed |-> FALSE]
NoLocals == [data3_len |-> 0, exec_coef1 |-> NoCoef]

\* coefficients as adjust_range handed them out
HandedOut(out, coef) == [fit |-> coef, freed |-> out.coef_dangling]

\* the worker at the given place of its loop, nothing read or stored yet
WorkerAt(pc) ==
    /\ inited = FALSE
    /\ data1 = [q \in QueryClasses |-> << >>]
    /\ data2 = [q \in QueryClasses |-> << >>]
    /\ data3 = [q \in QueryClasses |-> << >>]
    /\ data1_len = [q \in QueryClasses |-> 0]
    /\ data2_len = [q \in QueryClasses |-> 0]
    /\ data3_len = [q \in QueryClasses |-> 0]
    /\ exec_coef1 = [q \in QueryClasses |-> NoCoef]
    /\ exec_coef2 = [q \in QueryClasses |-> NoCoef]
    /\ exec_coef3 = [q \in QueryClasses |-> NoCoef]
    /\ query_num_recorded = FALSE
    /\ query_num = Q1
    /\ start_time_recorded = FALSE
    /\ num_rows_recorded = FALSE
    /\ num_rows = 0
    /\ command = [words |-> << >>, table |-> Table(1, 0)]
    /\ report = NoReport
    /\ boot_i = 0
    /\ add_locals = NoLocals
    /\ commands_read = 0
    /\ worker_pc = pc

WorkerIdle == WorkerAt("idle")

\* adjust_range is called on known samples
CallAdjust(q, call, d1, d2, len1, len2, first_flag) ==
    /\ adj_seeded' = TRUE
    /\ adj_class' = q
    /\ adj_call' = call
    /\ adj_data1' = d1
    /\ adj_data2' = d2
    /\ adj_len1' = len1
    /\ adj_len2' = len2
    /\ adj_first' = first_flag
    /\ adj' = NoAdjust
    /\ adj_pc' = "call"
    /\ adj_out' = NoResult

\* its locals are gone
LeaveAdjust ==
    /\ adj_seeded' = FALSE
    /\ adj_class' = Q1
    /\ adj_call' = 0
    /\ adj_data1' = << >>
    /\ adj_data2' = << >>
    /\ adj_len1' = 0
    /\ adj_len2' = 0
    /\ adj_first' = FALSE
    /\ adj' = NoAdjust
    /\ adj_pc' = "idle"
    /\ adj_out' = NoResult

\* get_init_values: every class gets the seeded samples in arrays of
\* DATASIZE cells
SeededArray(bucket, len) == [q \in QueryClasses |-> NewArray(bucket[q], len, DATASIZE)]

\* a flag that is left as it is
KeptFlag(flag) == flag

\* if (flag) printf(...); flag = false;
ClearedFlag(flag) == FALSE

\* The top of the loop: the three flags are cleared and a command is read.
\* The first time round the buckets are seeded and the start-up calls of
\* adjust_range begin with class 0.
ReadCommand ==
    /\ worker_pc = "read"
    /\ commands_read < MaxCommands
    /\ commands_read' = commands_read + 1
    /\ command' \in Commands
    /\ query_num_recorded' = ClearedFlag(query_num_recorded)
    /\ start_time_recorded' = ClearedFlag(start_time_recorded)
    /\ num_rows_recorded' = ClearedFlag(num_rows_recorded)
    /\ IF inited
       THEN /\ worker_pc' = "start"
            /\ UNCHANGED <<data1, data2, data3, data1_len, data2_len,
                           data3_len, varsAdjust>>
       ELSE /\ worker_pc' = "boot"
            /\ data1' = SeededArray([q \in QueryClasses |-> init_bucket1(q)], data1_len_saved)
            /\ data2' = SeededArray([q \in QueryClasses |-> init_bucket2(q)], data2_len_saved)
            /\ data3' = SeededArray([q \in QueryClasses |-> init_bucket3(q)], data3_len_saved)
            /\ data1_len' = [q \in QueryClasses |-> data1_len_saved]
            /\ data2_len' = [q \in QueryClasses |-> data2_len_saved]
            /\ data3_len' = [q \in QueryClasses |-> data3_len_saved]
            /\ CallAdjust(0, 1, data1'[0], data2'[0], data1_len_saved,
                          data2_len_saved, TRUE)
    /\ UNCHANGED <<inited, exec_coef1, exec_coef2, exec_coef3, query_num,
                   num_rows, report, boot_i, add_locals>>

\* The first start-up call for class boot_i has returned: its outputs are
\* stored and the second call begins.
BootFirstReturn ==
    /\ worker_pc = "boot"
    /\ adj_pc = "done"
    /\ adj_call = 1
    /\ data1' = [data1 EXCEPT ![boot_i] = adj_out.min_left]
    /\ data2' = [data2 EXCEPT ![boot_i] = adj_out.min_right]
    /\ data1_len' = [data1_len EXCEPT ![boot_i] = adj_out.data1_len]
    /\ data2_len' = [data2_len EXCEPT ![boot_i] = adj_out.data2_len]
    /\ exec_coef1' = [exec_coef1 EXCEPT ![boot_i] = HandedOut(adj_out, adj_out.min_left_coef)]
    /\ exec_coef2' = [exec_coef2 EXCEPT ![boot_i] = HandedOut(adj_out, adj_out.min_right_coef)]
    /\ CallAdjust(boot_i, 2, adj_out.min_right, data3[boot_i],
                  adj_out.data2_len, data3_len[boot_i], FALSE)
    /\ UNCHANGED <<inited, data3, data3_len, exec_coef3, query_num_recorded,
                   query_num, start_time_recorded, num_rows_recorded,
                   num_rows, command, report, boot_i, add_locals,
                   commands_read, worker_pc>>

\* The second start-up call for class boot_i has returned: the next class
\* follows, or the start-up block is over.
BootSecondReturn ==
    /\ worker_pc = "boot"
    /\ adj_pc = "done"
    /\ adj_call = 2
    /\ data2' = [data2 EXCEPT ![boot_i] = adj_out.min_left]
    /\ data3' = [data3 EXCEPT ![boot_i] = adj_out.min_right]
    /\ data2_len' = [data2_len EXCEPT ![boot_i] = adj_out.data1_len]
    /\ data3_len' = [data3_len EXCEPT ![boot_i] = adj_out.data2_len]
    /\ exec_coef2' = [exec_coef2 EXCEPT ![boot_i] = HandedOut(adj_out, adj_out.min_left_coef)]
    /\ exec_coef3' = [exec_coef3 EXCEPT ![boot_i] = HandedOut(adj_out, adj_out.min_right_coef)]
    /\ IF boot_i + 1 < QUERYNUM
       THEN /\ boot_i' = boot_i + 1
            /\ CallAdjust(boot_i + 1, 1, data1[boot_i + 1], data2[boot_i + 1],
                          data1_len[boot_i + 1], data2_len[boot_i + 1], TRUE)
            /\ UNCHANGED <<inited, worker_pc>>
       ELSE /\ inited' = TRUE
            /\ worker_pc' = "start"
            /\ LeaveAdjust
            /\ UNCHANGED boot_i
    /\ UNCHANGED <<data1, data1_len, exec_coef1, query_num_recorded,
                   query_num, start_time_recorded, num_rows_recorded,
                   num_rows, command, report, add_locals, commands_read>>

\* start_time_recorded = true; query_start_time = clock()
StartClock ==
    /\ worker_pc = "start"
    /\ start_time_recorded' = TRUE
    /\ worker_pc' = "exec"
    /\ UNCHANGED <<inited, data1, data2, data3, data1_len, data2_len,
                   data3_len, exec_coef1, exec_coef2, exec_coef3,
                   query_num_recorded, query_num, num_rows_recorded,
                   num_rows, command, report, boot_i, add_locals,
                   commands_read, varsAdjust>>

\* exec_simple_query calls sw_stack_for_hw on the statement: extraction,
\* classification, the row count of the table and the prediction.
ExecSimpleQuery ==
    /\ worker_pc = "exec"
    /\ \E fallthrough \in OphashFallthrough :
        LET r == extract_operation_info(command.words, fallthrough)
            q == get_query_num(r.info)
            rows == get_data_num(command.table)
            size == SizeOfRows(rows)
            hw == get_hw_expectation_time(q, dataset_num(r.info.data_col_len),
                                          command.table.page_num).total
        IN  IF r.status = "fault" \/ (r.info.hw_support /\ q \notin QueryClasses)
            THEN /\ worker_pc' = "crashed"
                 /\ UNCHANGED <<query_num_recorded, query_num,
                                num_rows_recorded, num_rows, report>>
            ELSE IF r.info.hw_support
            THEN /\ query_num_recorded' = TRUE
                 /\ query_num' = q
                 /\ num_rows_recorded' = TRUE
                 /\ num_rows' = rows
                 /\ \E cpu \in CpuPredictions(hw) :
                       report' =
                         [backend |-> Predictor(data1_len[q], data2_len[q],
                                                data3_len[q], cpu, hw),
                          cpu |-> cpu,
                          hw |-> hw,
                          coef |-> PredictingCoef(size, Cell(data2[q], 0)[1],
                                                  Cell(data3[q], 0)[1])]
                 /\ worker_pc' = "feedback"
            ELSE /\ report' = NoReport
                 /\ worker_pc' = "feedback"
                 /\ UNCHANGED <<query_num_recorded, query_num,
                                num_rows_recorded, num_rows>>
    /\ UNCHANGED <<inited, data1, data2, data3, data1_len, data2_len,
                   data3_len, exec_coef1, exec_coef2, exec_coef3,
                   start_time_recorded, command, boot_i, add_locals,
                   commands_read, varsAdjust>>

\* An error is raised while the statement is handled, before or after
\* sw_stack_for_hw: ereport(ERROR) jumps to the sigsetjmp of PostgresMain,
\* the transaction is aborted and the loop is entered at its top.  Nothing
\* on that way writes the three flags or the buckets.
StatementError ==
    /\ worker_pc \in {"exec", "feedback"}
    /\ worker_pc' = "read"
    /\ UNCHANGED <<inited, data1, data2, data3, data1_len, data2_len,
                   data3_len, exec_coef1, exec_coef2, exec_coef3,
                   query_num_recorded, query_num, start_time_recorded,
                   num_rows_recorded, num_rows, command, report, boot_i,
                   add_locals, commands_read, varsAdjust>>

\* the first index below len whose size is above the new one; len if there
\* is none
RECURSIVE FirstAbove(_, _, _, _)
FirstAbove(arr, len, size, i) ==
    IF i >= len THEN len
    ELSE IF Cell(arr, i)[1] > size THEN i
    ELSE FirstAbove(arr, len, size, i + 1)

\* the first index below len whose size is not below the new one; len if
\* there is none
RECURSIVE FirstNotBelow(_, _, _, _)
FirstNotBelow(arr, len, size, i) ==
    IF i >= len THEN len
    ELSE IF Cell(arr, i)[1] >= size THEN i
    ELSE FirstNotBelow(arr, len, size, i + 1)

\* The branch with a stored size taking the new time as it is.
InsertSampleTakesNew(arr, len, size, time) ==
    LET i == FirstNotBelow(arr, len, size, 0)
    IN  IF i >= len THEN [arr |-> arr, len |-> len, overflow |-> FALSE]
        ELSE IF Cell(arr, i)[1] = size
        THEN [arr |-> [arr EXCEPT ![i + 1] = <<size, time>>],
              len |-> len,
              overflow |-> FALSE]
        ELSE [arr |-> [k \in 1..Len(arr) |->
                          IF k < i + 1 THEN arr[k]
                          ELSE IF k = i + 1 THEN <<size, time>>
                          ELSE IF k <= len + 1 THEN arr[k - 1]
                          ELSE arr[k]],
              len |-> len + 1,
              overflow |-> len + 1 > Len(arr)]

\* One of the three branches of add_new_data: a size that is stored gets
\* the mean of the two times, a new size is put before the first larger
\* one, and a size above all stored ones is not stored.
InsertSample(arr, len, size, time) ==
    LET i == FirstNotBelow(arr, len, size, 0)
    IN  IF i >= len THEN [arr |-> arr, len |-> len, overflow |-> FALSE]
        ELSE IF Cell(arr, i)[1] = size
        THEN [arr |-> [arr EXCEPT ![i + 1] = <<size, (arr[i + 1][2] + time) \div 2>>],
              len |-> len,
              overflow |-> FALSE]
        ELSE [arr |-> [k \in 1..Len(arr) |->
                          IF k < i + 1 THEN arr[k]
                          ELSE IF k = i + 1 THEN <<size, time>>
                          ELSE IF k <= len + 1 THEN arr[k - 1]
                          ELSE arr[k]],
              len |-> len + 1,
              overflow |-> len + 1 > Len(arr)]

\* The insertion of add_new_data: the bucket is chosen by the first size of
\* the mid and of the far bucket, and only that bucket and its length are
\* written.
StoreSample(d1, d2, d3, l1, l2, l3, size, time) ==
    LET range == IF size <= Cell(d2, 0)[1] THEN 1
                 ELSE IF size <= Cell(d3, 0)[1] THEN 2
                 ELSE 3
        ins == IF range = 1 THEN InsertSample(d1, l1, size, time)
               ELSE IF range = 2 THEN InsertSample(d2, l2, size, time)
               ELSE InsertSample(d3, l3, size, time)
    IN  [range |-> range,
         data1 |-> IF range = 1 THEN ins.arr ELSE d1,
         data2 |-> IF range = 2 THEN ins.arr ELSE d2,
         data3 |-> IF range = 3 THEN ins.arr ELSE d3,
         data1_len |-> IF range = 1 THEN ins.len ELSE l1,
         data2_len |-> IF range = 2 THEN ins.len ELSE l2,
         data3_len |-> IF range = 3 THEN ins.len ELSE l3,
         overflow |-> ins.overflow]

\* The end of the 'Q' case.  With all flags set add_new_data is called: it
\* stores the sample in the bucket of the class its size falls into and
\* calls adjust_range on the near and mid bucket with the lengths it read
\* on entry.  The flags are cleared after it, or here if it is not called.
Feedback ==
    /\ worker_pc = "feedback"
    /\ IF cpu_used /\ query_num_recorded /\ start_time_recorded /\ num_rows_recorded
       THEN LET q == query_num
                st == StoreSample(data1[q], data2[q], data3[q], data1_len[q],
                                  data2_len[q], data3_len[q],
                                  SizeOfRows(num_rows), command.table.elapsed)
                ins == st
            IN  /\ data1' = [data1 EXCEPT ![q] = st.data1]
                /\ data2' = [data2 EXCEPT ![q] = st.data2]
                /\ data3' = [data3 EXCEPT ![q] = st.data3]
                /\ data1_len' = [data1_len EXCEPT ![q] = st.data1_len]
                /\ data2_len' = [data2_len EXCEPT ![q] = st.data2_len]
                /\ data3_len' = [data3_len EXCEPT ![q] = st.data3_len]
                /\ add_locals' = [data3_len |-> data3_len[q],
                                  exec_coef1 |-> exec_coef1[q]]
                /\ IF ins.overflow
                   THEN worker_pc' = "crashed" /\ UNCHANGED varsAdjust
                   ELSE /\ worker_pc' = "add"
                        /\ CallAdjust(q, 1, data1'[q], data2'[q],
                                      data1_len[q], data2_len[q], TRUE)
                /\ UNCHANGED <<query_num_recorded, start_time_recorded,
                               num_rows_recorded>>
       ELSE /\ query_num_recorded' = FALSE
            /\ start_time_recorded' = FALSE
            /\ num_rows_recorded' = FALSE
            /\ worker_pc' = "read"
            /\ UNCHANGED <<data1, data2, data3, data1_len, data2_len,
                           data3_len, add_locals, varsAdjust>>
    /\ UNCHANGED <<inited, exec_coef1, exec_coef2, exec_coef3, query_num,
                   num_rows, command, report, boot_i, commands_read>>

\* add_new_data: the first call of adjust_range has returned into the
\* locals, the second one is made on the mid bucket it handed out.
AddFirstReturn ==
    /\ worker_pc = "add"
    /\ adj_pc = "done"
    /\ adj_call = 1
    /\ add_locals' = [add_locals EXCEPT
                         !.exec_coef1 = HandedOut(adj_out, adj_out.min_left_coef)]
    /\ CallAdjust(query_num, 2, adj_out.min_right, data3[query_num],
                  adj_out.data2_len, add_locals.data3_len, FALSE)
    /\ UNCHANGED <<inited, data1, data2, data3, data1_len, data2_len,
                   data3_len, exec_coef1, exec_coef2, exec_coef3,
                   query_num_recorded, query_num, start_time_recorded,
                   num_rows_recorded, num_rows, command, report, boot_i,
                   commands_read, worker_pc>>

\* add_new_data: the second call has returned; the coefficients are all
\* that is stored.  Back in the loop the flags are cleared.
AddSecondReturn ==
    /\ worker_pc = "add"
    /\ adj_pc = "done"
    /\ adj_call = 2
    /\ exec_coef1' = [exec_coef1 EXCEPT ![query_num] = add_locals.exec_coef1]
    /\ exec_coef2' = [exec_coef2 EXCEPT ![query_num] = HandedOut(adj_out, adj_out.min_left_coef)]
    /\ exec_coef3' = [exec_coef3 EXCEPT ![query_num] = HandedOut(adj_out, adj_out.min_right_coef)]
    /\ add_locals' = NoLocals
    /\ query_num_recorded' = FALSE
    /\ start_time_recorded' = FALSE
    /\ num_rows_recorded' = FALSE
    /\ worker_pc' = "read"
    /\ LeaveAdjust
    /\ UNCHANGED <<inited, data1, data2, data3, data1_len, data2_len,
                   data3_len, query_num, num_rows, command, report, boot_i,
                   commands_read>>

(***************************************************************************)
(* The predictor of sw_stack_for_hw on its own                             *)
(***************************************************************************)
VARIABLES
    pr_len1, pr_len2, pr_len3,  \* data1_len, data2_len, data3_len of the class
    pr_query,                   \* query_num
    pr_data_col_len,            \* op_info.data_col_len
    pr_rel,                     \* the data table: its columns, the pages of
                                \* its main fork, the items on its first
                                \* and last page, whether try_relation_open
                                \* finds it and what stat of its file gives
    pr_probe,                   \* get_data_num: how it ended, whether it
                                \* printed or raised an error and whether it
                                \* went on to read the first page
    pr_dataset,                 \* dataset_num
    pr_page_num,                \* page_num as get_data_num sets it
    pr_rows,                    \* new_data_num, the value of get_data_num
    pr_called,                  \* the predictor has run
    pr_report                   \* what it printed

varsPredict == <<pr_len1, pr_len2, pr_len3, pr_query, pr_data_col_len,
                 pr_rel, pr_probe, pr_dataset, pr_page_num, pr_rows,
                 pr_called, pr_report>>

\* The pages of one segment file of a relation (RELSEG_SIZE of a default
\* build): the main fork of a larger table continues in the files
\* <path>.1, <path>.2, ...
SegmentPages == 131072

\* the shortest and the longest bucket the predictor is shown
MinLen == 2
MaxLen == 5

PredictIdle ==
    /\ pr_len1 = 0
    /\ pr_len2 = 0
    /\ pr_len3 = 0
    /\ pr_query = Q1
    /\ pr_data_col_len = 0
    /\ pr_rel = [cols |-> 1, pages |-> 1, first |-> 0, last |-> 0,
                 open |-> TRUE, stat |-> "ok"]
    /\ pr_probe = [outcome |-> "none", reported |-> FALSE,
                   first_page_read |-> FALSE]
    /\ pr_dataset = -1
    /\ pr_page_num = 0
    /\ pr_rows = 0
    /\ pr_called = FALSE
    /\ pr_report = NoReport

InitPredict ==
    /\ pr_len1 \in MinLen..MaxLen
    /\ pr_len2 \in MinLen..MaxLen
    /\ pr_len3 \in MinLen..MaxLen
    /\ pr_query \in {Q1, Q11}
    /\ \E pages \in {1, 2, 10, 40000, SegmentPages, SegmentPages + 1,
                      2 * SegmentPages + 10},
          last \in {37, RowsPerPage},
          cols \in {4, 8, 17, 28},
          \* the relation is found and stat succeeds; the relation is not
          \* found; stat fails with ENOENT (the relation has no file); stat
          \* fails with another errno
          access \in {<<TRUE, "ok">>, <<FALSE, "ok">>, <<TRUE, "ENOENT">>,
                      <<TRUE, "EIO">>} :
          /\ pr_rel = [cols |-> cols, pages |-> pages,
                       first |-> RowsPerPage, last |-> last,
                       open |-> access[1], stat |-> access[2]]
          \* a regression statement lists the bias and one column, or as
          \* many entries as the table has columns; the extractor fills
          \* data_col_len for no other statement
          /\ pr_data_col_len \in IF pr_query = Q1 THEN {2, cols} ELSE {0}
    /\ (pr_rel.pages = 1 => pr_rel.last = pr_rel.first)
    /\ pr_probe = [outcome |-> "none", reported |-> FALSE,
                   first_page_read |-> FALSE]
    /\ pr_dataset = -1
    /\ pr_page_num = 0
    /\ pr_rows = 0
    /\ pr_called = FALSE
    /\ pr_report = NoReport

\* The block under "Predictor" of sw_stack_for_hw.  get_data_num calls
\* stat on the path of the relation, which is the file of its first
\* segment, and reads page 0 and the last page of that file; every page but
\* the last of the table is full.
\*   - try_relation_open returns NULL: the message is printed and the
\*     function goes on to read rd_node through the null pointer; the
\*     backend dies there, or the read yields something and the function
\*     continues.
\*   - stat fails with ENOENT: nothing is printed or raised, fst stays as
\*     the stack left it and st_size / 0x2000 is any number; page 0 is then
\*     asked of the buffer manager, which raises an error for a relation
\*     without a file or hands out a page it still holds.
\*   - stat fails otherwise: ereport(ERROR) leaves the function.
Predict ==
    /\ ~pr_called
    /\ pr_probe.outcome = "none"
    /\ \E null_read \in IF pr_rel.open THEN {"none"} ELSE {"fault", "value"},
          page_read \in IF pr_rel.stat = "ENOENT" THEN {"ereport", "page"}
                        ELSE {"page"},
          uninit_pages \in IF pr_rel.stat = "ENOENT" THEN {1, 2}
                           ELSE {pr_rel.pages} :
          LET seg_pages == IF pr_rel.pages > SegmentPages THEN SegmentPages
                           ELSE pr_rel.pages
              st_pages == IF pr_rel.stat = "ENOENT" THEN uninit_pages
                          ELSE seg_pages
              ItemsOn(blkno) == IF blkno = pr_rel.pages - 1 THEN pr_rel.last
                                ELSE pr_rel.first
              file == [page_num |-> st_pages,
                       first_page_size |-> ItemsOn(0),
                       last_page_size |-> ItemsOn(st_pages - 1)]
              hw == get_hw_expectation_time(pr_query,
                                            dataset_num(pr_data_col_len),
                                            st_pages).total
              Ends(outcome, reported, read) ==
                  /\ pr_probe' = [outcome |-> outcome, reported |-> reported,
                                  first_page_read |-> read]
                  /\ UNCHANGED <<pr_page_num, pr_dataset, pr_rows,
                                 pr_called, pr_report>>
          IN  IF null_read = "fault" THEN Ends("fault", TRUE, FALSE)
              ELSE IF pr_rel.stat = "EIO"
              THEN Ends("ereport", TRUE, FALSE)
              ELSE IF page_read = "ereport"
              THEN /\ pr_probe' = [outcome |-> "ereport",
                                   reported |-> ~pr_rel.open,
                                   first_page_read |-> TRUE]
                   /\ pr_page_num' = st_pages
                   /\ UNCHANGED <<pr_dataset, pr_rows, pr_called, pr_report>>
              ELSE /\ pr_probe' = [outcome |-> "returned",
                                   reported |-> ~pr_rel.open,
                                   first_page_read |-> TRUE]
                   /\ pr_called' = TRUE
                   /\ pr_page_num' = st_pages
                   /\ pr_dataset' = IF EnoughData(pr_len1, pr_len2, pr_len3)
                                    THEN dataset_num(pr_data_col_len) ELSE -1
                   /\ pr_rows' = get_data_num(file)
                   /\ \E cpu \in CpuPredictions(hw) :
                       pr_report' = [backend |-> Predictor(pr_len1, pr_len2,
                                                           pr_len3, cpu, hw),
                                     cpu |-> cpu, hw |-> hw, coef |-> 0]
    /\ UNCHANGED <<pr_len1, pr_len2, pr_len3, pr_query, pr_data_col_len, pr_rel>>

(***************************************************************************)
(* polyfit                                                                 *)
(***************************************************************************)
VARIABLES
    pf,     \* a call of polyfit: its arguments, and what it left behind
    ad      \* a call of add_new_data up to its first adjust_range: the
            \* class, the new sample, the three buckets and lengths on
            \* entry and after the insertion

\* polyfit (lines 2499-2595) on pointCount points: the normal equations
\* (AT)A x = (AT)b are set up and solved by elimination without row
\* exchange.  Numbers are fractions <<n, d>> with d >= 0 in lowest terms;
\* <<1, 0>> and <<-1, 0>> are the infinities and <<0, 0>> is NaN, which is
\* what a division by zero leaves in a double.  The result is the value
\* returned and the content of coefficientResults after the call.
polyfit(pointCount, xValues, yValues, coefficientCount, coefficientResults) ==
    LET degree == coefficientCount - 1
        Idx == 0..(coefficientCount - 1)
        Sgn(n) == IF n > 0 THEN 1 ELSE IF n < 0 THEN -1 ELSE 0
        Mag(n) == IF n < 0 THEN -n ELSE n
        RECURSIVE GCD(_, _)
        GCD(a, b) == IF b = 0 THEN a ELSE GCD(b, a % b)
        Norm(n, d) ==
            IF d = 0 THEN <<Sgn(n), 0>>
            ELSE LET g == GCD(Mag(n), d) IN <<n \div g, d \div g>>
        Sub(a, b) == Norm(a[1] * b[2] - b[1] * a[2], a[2] * b[2])
        Mul(a, b) == Norm(a[1] * b[1], a[2] * b[2])
        Div(a, b) ==
            IF b[1] = 0 THEN <<Sgn(a[1]), 0>>
            ELSE Norm(a[1] * b[2] * Sgn(b[1]), a[2] * Mag(b[1]))
        RECURSIVE pow(_, _)
        pow(x, k) == IF k = 0 THEN 1 ELSE x * pow(x, k - 1)
        RECURSIVE ATA(_, _, _)
        ATA(i, j, r) ==
            IF r = 0 THEN 0
            ELSE ATA(i, j, r - 1)
                   + pow(xValues[r], degree - i) * pow(xValues[r], degree - j)
        RECURSIVE ATB(_, _)
        ATB(i, r) ==
            IF r = 0 THEN 0
            ELSE ATB(i, r - 1) + pow(xValues[r], degree - i) * yValues[r]
        pMatATA == [i \in Idx |-> [j \in Idx |-> <<ATA(i, j, pointCount), 1>>]]
        pMatATB == [i \in Idx |-> <<ATB(i, pointCount), 1>>]
        \* the loop over the pivot columns, from column c on
        RECURSIVE Solve(_, _, _)
        Solve(c, M, B) ==
            IF c = coefficientCount THEN [rVal |-> 0, M |-> M, B |-> B]
            ELSE IF M[c][c][1] = 0 THEN [rVal |-> -4, M |-> M, B |-> B]
            ELSE LET factor == [r \in Idx |-> Div(M[r][c], M[c][c])]
                 IN  Solve(c + 1,
                           [r \in Idx |-> [c2 \in Idx |->
                               IF r = c THEN M[r][c2]
                               ELSE Sub(M[r][c2], Mul(M[c][c2], factor[r]))]],
                           [r \in Idx |->
                               IF r = c THEN B[r]
                               ELSE Sub(B[r], Mul(B[c], factor[r]))])
        solved == Solve(0, pMatATA, pMatATB)
    IN  IF pointCount < coefficientCount
        THEN [rVal |-> -2, coefficientResults |-> coefficientResults]
        ELSE [rVal |-> solved.rVal,
              coefficientResults |->
                  [i \in 1..coefficientCount |->
                      Div(solved.B[i - 1], solved.M[i - 1][i - 1])]]

\* the largest time of a point
MaxFitTime == 2

\* no call of polyfit
FitIdle ==
    pf = [pointCount |-> 0, xValues |-> << >>, yValues |-> << >>,
          before |-> << >>, coefficientResults |-> << >>, rVal |-> 0,
          called |-> FALSE]

\* get_avg_error calls polyfit for EXEC_ORDER + 1 coefficients on the first
\* data_len samples of a bucket and goes on, whatever it returns.
PolyfitCall ==
    /\ ~pf.called
    /\ LET r == polyfit(pf.pointCount, pf.xValues, pf.yValues, EXEC_ORDER + 1,
                        pf.coefficientResults)
       IN  pf' = [pf EXCEPT !.called = TRUE,
                            !.rVal = r.rVal,
                            !.coefficientResults = r.coefficientResults]
    /\ UNCHANGED <<varsClassify, varsExtract, varsHw, varsAdjust, varsWorker,
                   varsPredict, ad>>

(***************************************************************************)
(* add_new_data: the insertion                                             *)
(***************************************************************************)

\* no call of add_new_data is looked at
AddIdle ==
    LET NoBuckets == [range |-> 0, data1 |-> << >>, data2 |-> << >>,
                      data3 |-> << >>, data1_len |-> 0, data2_len |-> 0,
                      data3_len |-> 0, overflow |-> FALSE]
    IN  ad = [q |-> -1, size |-> 0, time |-> 0, called |-> FALSE,
              entry |-> NoBuckets, exit |-> NoBuckets]

\* The buckets of a class are those the start-up leaves: adjust_range hands
\* the sample mid starts with over to near, in arrays of the joint length
\* of the two buckets it was called on.  add_new_data does not write its
\* arrays back, so every later call finds these arrays, near longer by the
\* new sizes stored since.  The cells past the lengths are not read by the
\* insertion.
InitAdd ==
    /\ LET RECURSIVE WithEarlier(_, _, _)
           WithEarlier(arr, len, k) ==
               IF k = 0 THEN [arr |-> arr, len |-> len, overflow |-> FALSE]
               ELSE LET b == WithEarlier(arr, len, k - 1)
                    IN  InsertSample(b.arr, b.len, 50 * k, 40 * k)
           AddSizes == {500, 1000, 1250, 1400000, 2000000, 62500000, 100000000,
                        1540000000, 1600000000}
           AddTimes == {1000, 70000000}
       IN  \E q \in QueryClasses, size \in AddSizes, time \in AddTimes,
              earlier \in 0..(data2_len_saved - 1) :
               LET near_len == data1_len_saved + 1
                   mid_len == data2_len_saved - 1
                   near == WithEarlier(
                               NewArray(init_bucket1(q) \o <<init_bucket2(q)[2]>>,
                                        near_len,
                                        data1_len_saved + data2_len_saved),
                               near_len, earlier)
                   b == [range |-> 0,
                         data1 |-> near.arr,
                         data2 |-> NewArray(Tail(init_bucket2(q)), mid_len,
                                            mid_len + data3_len_saved),
                         data3 |-> NewArray(init_bucket3(q), data3_len_saved,
                                            mid_len + data3_len_saved),
                         data1_len |-> near.len,
                         data2_len |-> mid_len,
                         data3_len |-> data3_len_saved,
                         overflow |-> FALSE]
               IN  ad = [q |-> q, size |-> size, time |-> time, called |-> FALSE,
                         entry |-> b, exit |-> b]
    /\ ClassifyIdle /\ ExtractIdle /\ HwIdle /\ AdjustIdle /\ WorkerIdle
    /\ PredictIdle /\ FitIdle

\* add_new_data from its entry to the call of adjust_range
AddStore ==
    /\ ~ad.called
    /\ LET b == ad.entry
       IN  ad' = [ad EXCEPT
                     !.called = TRUE,
                     !.exit = StoreSample(b.data1, b.data2, b.data3,
                                          b.data1_len, b.data2_len,
                                          b.data3_len, ad.size, ad.time)]
    /\ UNCHANGED <<varsClassify, varsExtract, varsHw, varsAdjust, varsWorker,
                   varsPredict, pf>>

vars == <<varsClassify, varsExtract, varsHw, varsAdjust, varsWorker, varsPredict, pf, ad>>


InitClassifier == InitClassify /\ ExtractIdle /\ HwIdle /\ AdjustIdle /\ WorkerIdle /\ PredictIdle /\ FitIdle /\ AddIdle

SpecClassify == InitClassifier /\ [][Classify /\ UNCHANGED <<varsExtract, varsHw, varsAdjust, varsWorker, varsPredict, pf, ad>>]_vars

NextExtract ==
    \/ StrTok /\ UNCHANGED <<varsClassify, varsHw, varsAdjust, varsWorker, varsPredict, pf, ad>>
    \/ ExtractStep /\ UNCHANGED <<varsClassify, varsHw, varsAdjust, varsWorker, varsPredict, pf, ad>>
    \/ ExtractReturn /\ UNCHANGED <<varsClassify, varsHw, varsAdjust, varsWorker, varsPredict, pf, ad>>
    \/ ExtractFault /\ UNCHANGED <<varsClassify, varsHw, varsAdjust, varsWorker, varsPredict, pf, ad>>

InitExtractor == InitExtract /\ ClassifyIdle /\ HwIdle /\ AdjustIdle /\ WorkerIdle /\ PredictIdle /\ FitIdle /\ AddIdle

SpecExtract == InitExtractor /\ [][NextExtract]_vars



InitEstimator == InitHw /\ ClassifyIdle /\ ExtractIdle /\ AdjustIdle /\ WorkerIdle /\ PredictIdle /\ FitIdle /\ AddIdle

SpecHw == InitEstimator /\ [][Estimate /\ UNCHANGED <<varsClassify, varsExtract, varsAdjust, varsWorker, varsPredict, pf, ad>>]_vars

\* adjust_range on its own: bounded inputs, and the start-up calls
NextAdjust ==
    \/ AdjustEnter /\ UNCHANGED <<varsClassify, varsExtract, varsHw, varsWorker, varsPredict, pf, ad>>
    \/ Phase1Step /\ UNCHANGED <<varsClassify, varsExtract, varsHw, varsWorker, varsPredict, pf, ad>>
    \/ Phase2Step /\ UNCHANGED <<varsClassify, varsExtract, varsHw, varsWorker, varsPredict, pf, ad>>
    \/ AdjustReturn /\ UNCHANGED <<varsClassify, varsExtract, varsHw, varsWorker, varsPredict, pf, ad>>
    \/ BootSecondCall /\ UNCHANGED <<varsClassify, varsExtract, varsHw, varsWorker, varsPredict, pf, ad>>

InitAdjuster == InitAdjust /\ ClassifyIdle /\ ExtractIdle /\ HwIdle /\ WorkerIdle /\ PredictIdle /\ FitIdle /\ AddIdle

SpecAdjust == InitAdjuster /\ [][NextAdjust]_vars

\* adjust_range is straight-line C: a call that has started keeps running
SpecAdjustLive == SpecAdjust /\ WF_vars(NextAdjust)

\* the worker loop, from the start of the backend
Next ==
    \/ ReadCommand /\ UNCHANGED <<varsClassify, varsExtract, varsHw, varsPredict, pf, ad>>
    \/ AdjustEnter /\ UNCHANGED <<varsClassify, varsExtract, varsHw, varsWorker, varsPredict, pf, ad>>
    \/ Phase1Step /\ UNCHANGED <<varsClassify, varsExtract, varsHw, varsWorker, varsPredict, pf, ad>>
    \/ Phase2Step /\ UNCHANGED <<varsClassify, varsExtract, varsHw, varsWorker, varsPredict, pf, ad>>
    \/ AdjustReturn /\ UNCHANGED <<varsClassify, varsExtract, varsHw, varsWorker, varsPredict, pf, ad>>
    \/ BootFirstReturn /\ UNCHANGED <<varsClassify, varsExtract, varsHw, varsPredict, pf, ad>>
    \/ BootSecondReturn /\ UNCHANGED <<varsClassify, varsExtract, varsHw, varsPredict, pf, ad>>
    \/ StartClock /\ UNCHANGED <<varsClassify, varsExtract, varsHw, varsPredict, pf, ad>>
    \/ ExecSimpleQuery /\ UNCHANGED <<varsClassify, varsExtract, varsHw, varsPredict, pf, ad>>
    \/ Feedback /\ UNCHANGED <<varsClassify, varsExtract, varsHw, varsPredict, pf, ad>>
    \/ StatementError /\ UNCHANGED <<varsClassify, varsExtract, varsHw, varsPredict, pf, ad>>
    \/ AddFirstReturn /\ UNCHANGED <<varsClassify, varsExtract, varsHw, varsPredict, pf, ad>>
    \/ AddSecondReturn /\ UNCHANGED <<varsClassify, varsExtract, varsHw, varsPredict, pf, ad>>

\* the backend has started and waits for its first command
Init ==
    /\ WorkerAt("read") /\ AdjustIdle
    /\ ClassifyIdle /\ ExtractIdle /\ HwIdle /\ PredictIdle /\ FitIdle /\ AddIdle

Spec == Init /\ [][Next]_vars


InitPredictor ==
    /\ InitPredict /\ ClassifyIdle /\ ExtractIdle /\ HwIdle /\ AdjustIdle
    /\ WorkerIdle /\ FitIdle /\ AddIdle

SpecPredict == InitPredictor /\ [][Predict /\ UNCHANGED <<varsClassify, varsExtract, varsHw, varsAdjust, varsWorker, pf, ad>>]_vars

\* polyfit on bounded inputs
InitFitter ==
    \* the sizes of the points are all the same or all different; the
    \* coefficient vector holds an earlier fit or zeros
    /\ LET FitSizes == {<<0, 0, 0, 0>>, <<1, 1, 1, 1>>, <<2, 2, 2, 2>>,
                        <<0, 1, 2, 3>>}
           FitCoefs == {<<<<7, 1>>, <<-3, 1>>, <<1, 2>>, <<0, 1>>>>,
                        <<<<0, 1>>, <<0, 1>>, <<0, 1>>, <<0, 1>>>>}
       IN  \E n \in {EXEC_ORDER, EXEC_ORDER + 1}, xs \in FitSizes,
              ys \in [1..(EXEC_ORDER + 1) -> 1..MaxFitTime], cs \in FitCoefs :
               pf = [pointCount |-> n, xValues |-> xs, yValues |-> ys,
                     before |-> cs, coefficientResults |-> cs, rVal |-> 0,
                     called |-> FALSE]
    /\ ClassifyIdle /\ ExtractIdle /\ HwIdle /\ AdjustIdle /\ WorkerIdle
    /\ PredictIdle /\ AddIdle

\* the insertion of add_new_data on bounded inputs
SpecAdd == InitAdd /\ [][AddStore]_vars

SpecFit == InitFitter /\ [][PolyfitCall]_vars

(***************************************************************************)
(* Properties                                                              *)
(***************************************************************************)

\* C1: for a supported profile whose operation is the code of one of the six
\* function names, whatever its filter and aggregate flags, get_query_num
\* returns a class in Q1..Q11 and never -1; and when the name is one of the
\* two regressions, every other filter/aggregate combination of the same
\* profile is classified differently.
C1_ClassifierTotal ==
    (cl_called /\ cl_info.hw_support /\ cl_name \in OperationNames) =>
        /\ cl_result \in QueryClasses
        /\ cl_result # -1
        /\ cl_name \in RegressionNames =>
              \A filter, aggr \in BOOLEAN :
                  (filter # cl_info.filter_flag \/ aggr # cl_info.aggr_flag) =>
                      get_query_num([cl_info EXCEPT !.filter_flag = filter,
                                                    !.aggr_flag = aggr])
                          # cl_result

\* C1 has happened: a supported regression profile with a filter and an
\* aggregate has been classified, and so has a supported RandomForest profile.
C1_Witness ==
    /\ cl_called
    /\ cl_info.hw_support
    /\ \/ cl_name = "madlib.linregr_predict" /\ cl_info.filter_flag
                                             /\ cl_info.aggr_flag
                                             /\ cl_result = Q4
       \/ cl_name = "madlib.forest_predict" /\ cl_result \in QueryClasses

\* The words of a statement hold a GROUP BY or an ORDER BY clause.
HasGroupOrOrderBy(words) ==
    \E k \in 1..(Len(words) - 1) :
        words[k] \in {"GROUP", "ORDER"} /\ words[k + 1] = "BY"

\* C6: whenever extract_operation_info returns for a query string that
\* holds a GROUP BY or an ORDER BY clause, hw_support is false.
C6_GroupOrderByUnsupported ==
    (ex_pc = "returned" /\ HasGroupOrOrderBy(word_array)) =>
        ex.info.hw_support = FALSE

\* C8: a query string and its canonical text (the same words, one blank
\* between two of them) give the same word_array, and when the extraction
\* returns, the same profile.
C8_SeparatorsIgnored ==
    /\ ex_pc # "strtok" => word_array = Tokenize(canon_string)
    /\ ex_pc = "returned" =>
          ex.info = extract_operation_info(Tokenize(canon_string),
                                           ophash_fallthrough).info

\* C8 has happened: a statement with an extra separator somewhere was
\* extracted to a supported profile with a filter.
C8_Witness ==
    /\ ex_pc = "returned"
    /\ Len(query_string) > Len(canon_string)
    /\ Len(word_array) > 0
    /\ ex.info.hw_support
    /\ ex.info.filter_flag

\* C7: for user_pagenum = 1, whatever the query class and the dataset,
\* get_hw_expectation_time finds zero host iterations, and each term of the
\* estimate is its remainder part alone: the buffer allocation is the tier
\* latency of the two-page remainder with no saturated cost and no fixed
\* increment, each transfer is the transfer of the remainder, the compute
\* and DMA cycles are those of the remainder's pages, and the total is the
\* sum of exactly these.
C7_SinglePageNoFullIteration ==
    (hw_called /\ hw_pagenum = 1) =>
        LET pages == page_iteration(hw_pagenum)
            outsize == user_outbuffer_size(hw_query, hw_pagenum, 0)
            unit == UnitCycles(hw_dataset, hw_query)
            kernel == hw_time.com + hw_time.dma
        IN  /\ hw_time.host_iteration = 0
            /\ hw_time.createbuffer = host_createbuffer_latency(pages)
            /\ hw_time.addressmap = HOST_ADDRESSMAP_LATENCY
            /\ hw_time.setkernel = HOST_SETKERNEL_LATENCY
            /\ hw_time.ssd2fpga =
                  TransferLatency(pages, user_ssd2fpga_effbw(pages))
            /\ hw_time.fpga2host =
                  OutputLatency(outsize, user_fpga2host_effbw(outsize))
            /\ hw_time.com = CycleLatency(unit[1], pages)
            /\ hw_time.dma = CycleLatency(unit[2],
                                 IF IsAggrQuery(hw_query) THEN 1 ELSE pages)
            /\ hw_time.total =
                  hw_time.createbuffer + hw_time.addressmap
                    + hw_time.ssd2fpga + hw_time.setkernel + kernel
                    + user_kernel_overhead_latency(kernel) + hw_time.fpga2host

\* C7 has happened: the estimate of a one-page table was computed for an
\* aggregate class and for a class without aggregate.
C7_Witness ==
    /\ hw_called
    /\ hw_pagenum = 1
    /\ hw_query \in {Q4, Q10}
    /\ hw_dataset = HABERMAN
    /\ hw_time.total > 0

\* a call of adjust_range on two buckets of at least 4 samples each, the
\* last size of the left one not above the first size of the right one
AdjacentFourEach ==
    /\ adj_len1 >= 4
    /\ adj_len2 >= 4
    /\ Cell(adj_data1, adj_len1 - 1)[1] <= Cell(adj_data2, 0)[1]

\* C2: for adjacent buckets of at least 4 samples each, adjust_range
\* returns lengths that are both at least 4, and a sum of the two error
\* rates that is not above the sum for the buckets as passed in.
C2_KeepsFourAndError ==
    (adj_pc = "done" /\ AdjacentFourEach) =>
        /\ adj_out.data1_len >= 4
        /\ adj_out.data2_len >= 4
        /\ adj_out.left_error_rate + adj_out.right_error_rate
               <= adj.def_left_error_rate + adj.def_right_error_rate

\* the loop counters of a call stay within the lengths passed in
ScansBounded ==
    adj_pc \in {"run", "done"} =>
        /\ adj.p1.rec <= adj.def_data2_len
        /\ adj.p2.rec <= adj.def_data1_len
        /\ adj.pc = "phase1" => adj.p1.rec < adj.def_data2_len
        /\ adj.pc = "phase2" => adj.p2.rec < adj.def_data1_len

\* every step of a scan counts, whether the move was kept or rolled back
ScanStepCounts ==
    /\ (adj_pc = "run" /\ adj.pc = "phase1") =>
           adj'.p1.rec = adj.p1.rec + 1 /\ adj'.p2.rec = adj.p2.rec
    /\ (adj_pc = "run" /\ adj.pc = "phase2") =>
           adj'.p2.rec = adj.p2.rec + 1 /\ adj'.p1.rec = adj.p1.rec

\* C5: adjust_range terminates; the scan that moves samples from right
\* into left takes at most len(right) steps and the scan that moves samples
\* from left into right at most len(left) steps, whatever the buckets hold
\* and whatever moves are accepted, the seeded buckets of Q1 included.
C5_AdjustTerminates ==
    /\ []ScansBounded
    /\ [][ScanStepCounts]_vars
    /\ (adj_pc = "call") ~> (adj_pc = "done")

\* both start-up calls on the seeded buckets of Q1 have returned, the second
\* after scanning in both directions; or a scan of buckets never seeded
\* has used up every step it is allowed
C5_Witness ==
    /\ adj_pc = "done"
    /\ \/ adj_seeded /\ adj_class = Q1 /\ adj_call = 2
          /\ adj.p1.rec >= 1 /\ adj.p2.rec >= 1
       \/ ~adj_seeded /\ adj.p2.rec = adj.def_data1_len /\ adj.p1.rec >= 2

(***************************************************************************)
(* The buckets of the backend                                              *)
(***************************************************************************)
\* the sizes of a bucket grow from each stored sample to the next
Ascending(arr, len) ==
    \A i \in 0..(len - 2) : Cell(arr, i)[1] < Cell(arr, i + 1)[1]

\* C3: once the start-up calls of adjust_range are through, and after every
\* call of add_new_data, each of the three buckets of every class has
\* strictly ascending sizes over its stored length, wherever the new sample
\* went.
C3_BucketsAscending ==
    inited => \A q \in QueryClasses :
                  /\ Ascending(data1[q], data1_len[q])
                  /\ Ascending(data2[q], data2_len[q])
                  /\ Ascending(data3[q], data3_len[q])

\* two samples were added to the buckets of one class: one went in front of
\* a bucket, the other between two stored samples
C3_Witness ==
    /\ inited
    /\ worker_pc = "read"
    /\ commands_read = 2
    /\ \E q \in QueryClasses :
           /\ data1_len[q] + data2_len[q] + data3_len[q] =
                  Len(init_bucket1(q)) + Len(init_bucket2(q)) + Len(init_bucket3(q)) + 2
           /\ Cell(data1[q], 0)[1] < init_bucket1(q)[1][1]
           /\ \/ data2_len[q] = 13
              \/ data3_len[q] = 19

\* the stored samples of a bucket
Stored(arr, len) == SubSeq(arr, 1, len)

\* two adjacent buckets laid end to end; the sample both hold is taken once
Joined(left, left_len, right, right_len) ==
    Stored(left, left_len) \o SubSeq(right, 2, right_len)

\* the last size of near, the first and last size of mid, the first of far
Boundaries(q) ==
    <<Cell(data1[q], data1_len[q] - 1)[1], Cell(data2[q], 0)[1],
      Cell(data2[q], data2_len[q] - 1)[1], Cell(data3[q], 0)[1]>>

\* near ends where mid begins or before it, and mid where far begins
BoundariesOrdered(q) ==
    /\ Boundaries(q)[1] <= Boundaries(q)[2]
    /\ Boundaries(q)[3] <= Boundaries(q)[4]

\* One scan step of adjust_range moves the boundary of a copy by at most one
\* sample; the sample that changes side is the one next to the boundary
\* sample of the bucket it leaves, and it becomes the boundary sample of
\* the bucket it enters.
SingleTransfer ==
    (adj_pc = "run" /\ adj.pc \in {"phase1", "phase2"}) =>
        \A ph \in {"p1", "p2"} :
            LET old == adj[ph].b
                new == adj'[ph].b
            IN  /\ new.left_len - old.left_len \in {-1, 0, 1}
                /\ new.left_len + new.right_len = old.left_len + old.right_len
                /\ new.left_len = old.left_len + 1 =>
                       /\ Cell(new.left, old.left_len) = Cell(old.right, 1)
                       /\ Stored(new.left, old.left_len) = Stored(old.left, old.left_len)
                       /\ Stored(new.right, new.right_len) = SubSeq(old.right, 2, old.right_len)
                /\ new.left_len = old.left_len - 1 =>
                       /\ Cell(new.right, 0) = Cell(old.left, old.left_len - 2)
                       /\ Stored(new.left, new.left_len) = Stored(old.left, new.left_len)
                       /\ SubSeq(new.right, 2, new.right_len) = Stored(old.right, old.right_len)

\* What a step may do to the buckets of a class: leave them alone, move the
\* boundary of near and mid or of mid and far across samples next to it
\* (the two buckets laid end to end are what they were), or store a sample
\* without touching a boundary.
BoundaryStep(q) ==
    \/ UNCHANGED <<data1[q], data2[q], data3[q],
                   data1_len[q], data2_len[q], data3_len[q]>>
    \/ /\ Joined(data1'[q], data1_len'[q], data2'[q], data2_len'[q]) =
              Joined(data1[q], data1_len[q], data2[q], data2_len[q])
       /\ UNCHANGED <<Boundaries(q)[3], data3[q], data3_len[q]>>
    \/ /\ Joined(data2'[q], data2_len'[q], data3'[q], data3_len'[q]) =
              Joined(data2[q], data2_len[q], data3[q], data3_len[q])
       /\ UNCHANGED <<Boundaries(q)[2], data1[q], data1_len[q]>>
    \/ /\ worker_pc = "feedback"
       /\ UNCHANGED Boundaries(q)

\* the buckets of class q hold the seeded samples or what became of them
Seeded(q) == inited \/ worker_pc = "boot"

\* C4: after the start-up calls and after every call of add_new_data, near
\* ends at or before the first size of mid and mid at or before the first
\* size of far, for every class; and a boundary gets to a new position only
\* by single samples next to it changing from one of its two buckets to
\* the other.
C4_BoundariesContiguous ==
    /\ [](inited => \A q \in QueryClasses : BoundariesOrdered(q))
    /\ [][SingleTransfer]_vars
    /\ [][\A q \in QueryClasses : Seeded(q) => BoundaryStep(q)]_vars

\* the start-up calls moved the boundary of near and mid of Q1 by one sample,
\* and a sample was stored since
C4_Witness ==
    /\ inited
    /\ worker_pc = "read"
    /\ commands_read >= 1
    /\ data1_len[Q1] + data2_len[Q1] + data3_len[Q1] >
           data1_len_saved + data2_len_saved + data3_len_saved
    /\ Boundaries(Q1)[2] = data_num2_saved[2]
    /\ Boundaries(Q1)[1] = Boundaries(Q1)[2]

(***************************************************************************)
(* The decision                                                            *)
(***************************************************************************)
\* the predictor chose a backend
Decided == pr_called /\ pr_report.backend \in {"use CPU", "use HW"}

\* C9 as stated: CPU is reported only if its predicted time is below the
\* accelerator's, and the accelerator only if its predicted time is below
\* the CPU's.
C9_StrictlyLowerWins ==
    Decided =>
        /\ pr_report.backend = "use CPU" => pr_report.cpu < pr_report.hw
        /\ pr_report.backend = "use HW" => pr_report.hw < pr_report.cpu

\* C9: CPU is reported only if its predicted time is below the
\* accelerator's; the accelerator is reported only if its predicted time is
\* not above the CPU's, so that equal predictions go to the accelerator.
C9_LowerWinsTieToHw ==
    Decided =>
        /\ pr_report.backend = "use CPU" => pr_report.cpu < pr_report.hw
        /\ pr_report.backend = "use HW" => pr_report.hw <= pr_report.cpu

\* the predictions were equal and a backend was reported
C9_Witness ==
    Decided /\ pr_report.cpu = pr_report.hw /\ pr_report.backend = "use HW"

\* the predictor declined
Declined == pr_called /\ pr_report.backend = "not enough data gathered"

Predicted == worker_pc = "feedback" /\ report.backend \in {"use CPU", "use HW"}

\* C11: the CPU time is predicted with the coefficients of near if the size
\* is at most the first size mid holds now, with those of mid if it is above
\* that and at most the first size far holds now, and with those of far
\* otherwise.
C11_CoefByFirstSizes ==
    Predicted =>
        LET size == SizeOfRows(num_rows)
            mid0 == Cell(data2[query_num], 0)[1]
            far0 == Cell(data3[query_num], 0)[1]
        IN  /\ report.coef = 1 <=> size <= mid0
            /\ report.coef = 2 <=> (mid0 < size /\ size <= far0)
            /\ report.coef = 3 <=> far0 < size

\* a table of exactly the first size of mid was predicted with the
\* coefficients of near, after a sample was added to the class
C11_Witness ==
    /\ Predicted
    /\ commands_read = 2
    /\ SizeOfRows(num_rows) = Cell(data2[query_num], 0)[1]
    /\ report.coef = 1
    /\ data1_len[query_num] + data2_len[query_num] + data3_len[query_num] >
           data1_len_saved + data2_len_saved + data3_len_saved

(***************************************************************************)
(* A sample of a size that is stored                                       *)
(***************************************************************************)
\* add_new_data is called with this step: the statement was handled to its
\* end with all flags set
AddCalled ==
    /\ Feedback
    /\ cpu_used /\ query_num_recorded /\ start_time_recorded /\ num_rows_recorded

\* the bucket of the class the size of the new sample falls into
Bracket ==
    LET size == SizeOfRows(num_rows)
    IN  IF size <= Cell(data2[query_num], 0)[1] THEN 1
        ELSE IF size <= Cell(data3[query_num], 0)[1] THEN 2
        ELSE 3

\* the three buckets of a class and their lengths
BucketOf(q, n) == IF n = 1 THEN data1[q] ELSE IF n = 2 THEN data2[q] ELSE data3[q]

LenOf(q, n) ==
    IF n = 1 THEN data1_len[q] ELSE IF n = 2 THEN data2_len[q] ELSE data3_len[q]

\* where the bracketing bucket holds the size of the new sample
StoredAt ==
    {i \in 0..(LenOf(query_num, Bracket) - 1) :
        Cell(BucketOf(query_num, Bracket), i)[1] = SizeOfRows(num_rows)}

\* The step stores nothing new: every length and every cell is what it was,
\* but for the time of the one entry of that size, which is the mean of its
\* time and the new one.
AveragedOnly ==
    /\ UNCHANGED <<data1_len, data2_len, data3_len>>
    /\ \A q \in QueryClasses, n \in 1..3 :
           \A k \in 0..(Len(BucketOf(q, n)) - 1) :
               LET old == Cell(BucketOf(q, n), k)
                   new == Cell(BucketOf(q, n)', k)
               IN  IF q = query_num /\ n = Bracket /\ k \in StoredAt
                   THEN new = <<old[1], (old[2] + command.table.elapsed) \div 2>>
                   ELSE new = old

\* C12: a call of add_new_data with a size that the bracketing bucket
\* holds inserts nothing: the three lengths and all sizes stay, the time of
\* that entry becomes the mean of its old time and the new one, and no other
\* time changes, up to the return of the call.
C12_StoredSizeAveraged ==
    /\ [][(AddCalled /\ StoredAt # {}) => AveragedOnly]_vars
    /\ [][worker_pc = "add" =>
              UNCHANGED <<data1, data2, data3, data1_len, data2_len, data3_len>>]_vars

\* add_new_data runs for a first sample whose size one of the seeded
\* samples has; the entry holds the mean of the seeded time and the new one
C12_Witness ==
    /\ worker_pc = "add"
    /\ commands_read = 1
    /\ StoredAt # {}
    /\ \A i \in StoredAt :
           \E c \in {init_bucket1(query_num)[k] : k \in 1..data1_len_saved}
                    \cup {init_bucket2(query_num)[k] : k \in 1..data2_len_saved}
                    \cup {init_bucket3(query_num)[k] : k \in 1..data3_len_saved} :
               /\ c[1] = SizeOfRows(num_rows)
               /\ Cell(BucketOf(query_num, Bracket), i) =
                      <<c[1], (c[2] + command.table.elapsed) \div 2>>
               /\ c[2] # command.table.elapsed
    /\ data1_len[query_num] + data2_len[query_num] + data3_len[query_num] =
           data1_len_saved + data2_len_saved + data3_len_saved

(***************************************************************************)
(* A fit that cannot be solved                                             *)
(***************************************************************************)
\* polyfit has run on enough points and met a pivot of zero
ZeroPivot ==
    /\ pf.called
    /\ pf.pointCount >= EXEC_ORDER + 1
    /\ \A i, j \in 1..pf.pointCount : pf.xValues[i] = pf.xValues[j]

\* C13: when the solve meets a pivot of zero, polyfit returns an error code
\* other than zero and the coefficient vector holds what it held before
\* the call.
C13_ZeroPivotKeepsCoefs ==
    ZeroPivot => pf.rVal # 0 /\ pf.coefficientResults = pf.before

(***************************************************************************)
(* The feedback after a statement                                          *)
(***************************************************************************)
\* the statement handled was supported and classified
Classified == report.backend # "none" /\ query_num \in QueryClasses

\* add_new_data is entered with this step, for the class of the statement
AddEntered ==
    /\ worker_pc' = "add"
    /\ adj_pc' = "call" /\ adj_call' = 1 /\ adj_class' = query_num

\* Every command is handled in one pass: the clock is started after the
\* command is read, the statement is executed after that, the feedback
\* follows the execution, and add_new_data is entered from the feedback
\* only.  The next command is read after the feedback, or after an error
\* that ended the statement.
OnePass ==
    /\ (worker_pc # "start" /\ worker_pc' = "start") =>
           worker_pc \in {"read", "boot"}
    /\ (worker_pc # "exec" /\ worker_pc' = "exec") => worker_pc = "start"
    /\ (worker_pc # "feedback" /\ worker_pc' = "feedback") => worker_pc = "exec"
    /\ (worker_pc # "add" /\ worker_pc' = "add") => worker_pc = "feedback"
    /\ (worker_pc # "read" /\ worker_pc' = "read") =>
           worker_pc \in {"exec", "feedback", "add"}

\* C14: after a statement that was handled to its end add_new_data is
\* entered, once and for the class of the statement, exactly when the
\* statement was supported and classified and its start time and its rows
\* were recorded while it was handled, and it ran on the CPU; every
\* statement the backend handles runs on the CPU.
C14_FeedbackWhenRecorded ==
    /\ [](worker_pc \in {"boot", "start"} =>
              ~query_num_recorded /\ ~num_rows_recorded)
    /\ [](worker_pc = "boot" => ~start_time_recorded)
    /\ [](worker_pc = "feedback" =>
              /\ cpu_used
              /\ query_num_recorded <=> Classified
              /\ num_rows_recorded <=> Classified)
    /\ [][Feedback =>
              (AddEntered <=> (cpu_used /\ Classified /\ start_time_recorded
                                  /\ num_rows_recorded))]_vars
    /\ [][Feedback => (AddEntered \/ worker_pc' = "read")]_vars
    /\ [][OnePass]_vars

\* add_new_data runs for the second statement, one that was predicted to be
\* faster on the accelerator
C14_Witness ==
    /\ worker_pc = "add"
    /\ commands_read = 2
    /\ Classified /\ adj_class = query_num
    /\ report.backend = "use HW"

(***************************************************************************)
(* Statements the accelerator does not support                             *)
(***************************************************************************)
\* everything kept per query class
Learned ==
    <<data1, data2, data3, data1_len, data2_len, data3_len,
      exec_coef1, exec_coef2, exec_coef3>>

\* the extraction of the statement ends with hw_support = false
StatementUnsupported ==
    \E fallthrough \in OphashFallthrough :
        LET r == extract_operation_info(command.words, fallthrough)
        IN  r.status = "done" /\ ~r.info.hw_support

\* C15: while a statement with hw_support = false is handled, no class is
\* recorded, nothing is predicted, no backend is chosen, and the samples,
\* the lengths and the coefficients of every class stay as they were.
C15_UnsupportedLeavesAll ==
    /\ [][(worker_pc = "exec" /\ StatementUnsupported
              /\ worker_pc' = "feedback") =>
              /\ ~query_num_recorded' /\ query_num' = query_num
              /\ ~num_rows_recorded' /\ num_rows' = num_rows
              /\ report'.backend = "none" /\ report'.coef = 0
              /\ report'.cpu = 0 /\ report'.hw = 0
              /\ UNCHANGED Learned]_vars
    /\ [][(worker_pc = "feedback" /\ StatementUnsupported) =>
              /\ worker_pc' = "read"
              /\ UNCHANGED <<query_num, num_rows, report>>
              /\ UNCHANGED Learned]_vars

\* the second statement was not supported and has been handled
C15_Witness ==
    /\ worker_pc = "read"
    /\ commands_read = 2
    /\ command.words[1] = "INSERT"
    /\ StatementUnsupported
    /\ report.backend = "none"

(***************************************************************************)
(* The start-up of the models                                              *)
(***************************************************************************)
\* adjust_range is called with this step
AdjustCalled == adj_pc' = "call" /\ (adj_pc # "call" \/ adj_call' # adj_call)

\* the place of a call among the start-up calls: class 0 near/mid, class 0
\* mid/far, class 1 near/mid, ...
BootCallNo(q, call) == 2 * q + call

\* the start-up block: every class is seeded with 15, 13 and 18 samples and
\* adjust_range is called once per boundary and class, in the order of the
\* classes; the block is left after the last call only
BootOnce ==
    /\ (worker_pc # "boot" /\ worker_pc' = "boot") =>
           /\ worker_pc = "read" /\ ~inited /\ commands_read = 0
           /\ \A q \in QueryClasses :
                 /\ data1_len'[q] = 15 /\ data2_len'[q] = 13 /\ data3_len'[q] = 18
                 /\ Stored(data1'[q], 15) =
                       Samples(data_num1_saved, exec_time1_saved[q + 1], 15)
                 /\ Stored(data2'[q], 13) = init_bucket2(q)
                 /\ Stored(data3'[q], 18) = init_bucket3(q)
           /\ AdjustCalled /\ BootCallNo(adj_class', adj_call') = 1
    /\ (worker_pc = "boot" /\ worker_pc' = "boot" /\ AdjustCalled) =>
           BootCallNo(adj_class', adj_call') = BootCallNo(adj_class, adj_call) + 1
    /\ (worker_pc = "boot" /\ worker_pc' # "boot") =>
           /\ BootCallNo(adj_class, adj_call) = 2 * 11
           /\ inited' /\ worker_pc' = "start"
    /\ inited' # inited => worker_pc = "boot" /\ inited'
    /\ (worker_pc = "read" /\ inited) =>
           worker_pc' = "start" /\ UNCHANGED Learned

\* C16: the models are started once: at the first command every class is
\* seeded and adjust_range runs once per boundary and class, all of it
\* before the first statement is extracted, predicted or fed back, and no
\* later command starts them again.
C16_BootstrapOnceFirst ==
    /\ [][BootOnce]_vars
    /\ [](worker_pc = "boot" => ~inited /\ commands_read = 1)
    /\ [](worker_pc \in {"start", "exec", "feedback", "add"} => inited)
    /\ [](commands_read > 1 => inited)

\* a second command is handled on the models the first one left
C16_Witness ==
    /\ worker_pc = "exec"
    /\ commands_read = 2
    /\ inited
    /\ data1_len[Q1] + data2_len[Q1] + data3_len[Q1] > 15 + 13 + 18 - 2

(***************************************************************************)
(* The column lists of a regression statement                              *)
(***************************************************************************)
\* the extraction of a regression statement has returned with both column
\* lists filled
BothListsFilled ==
    /\ ex_pc = "returned"
    /\ ex.info.hw_support
    /\ ex.info.hw_operation \in {LINREGR, LOGREGR}
    /\ ex.info.model_col_len > 0
    /\ ex.info.data_col_len > 0

\* the words of the statement that follow word k up to the next FROM or
\* ARRAY
RECURSIVE ListedAfter(_)
ListedAfter(k) ==
    IF k + 1 > Len(word_array) \/ word_array[k + 1] \in {"FROM", "ARRAY"}
    THEN 0
    ELSE 1 + ListedAfter(k + 1)

\* the length of the column list that starts at word k: the words listed
\* after ARRAY, one for a coef reference
ListLength(k) == IF word_array[k] = "ARRAY" THEN ListedAfter(k) ELSE 1

\* the word with which the model-side list of the statement starts: the one
\* after the name of the function
ModelListAt ==
    1 + CHOOSE k \in 1..Len(word_array) :
            /\ word_array[k] \in {"madlib.linregr_predict",
                                  "madlib.logregr_predict_prob"}
            /\ \A j \in 1..(k - 1) :
                  word_array[j] \notin {"madlib.linregr_predict",
                                        "madlib.logregr_predict_prob"}

\* the word with which the data-side list starts: the one after the
\* model-side list
DataListAt ==
    IF word_array[ModelListAt] = "ARRAY"
    THEN ModelListAt + 1 + ListedAfter(ModelListAt)
    ELSE ModelListAt + 1

C18_RowsFromAllPages ==
    (pr_called /\ pr_rel.open /\ pr_rel.stat = "ok") =>
        /\ pr_page_num = pr_rel.pages
        /\ pr_rows = IF pr_rel.pages = 1 THEN pr_rel.first
                     ELSE pr_rel.first * (pr_rel.pages - 1) + pr_rel.last

(***************************************************************************)
(* The dataset category                                                    *)
(***************************************************************************)
\* C19 as stated: the category given to the hardware estimator follows from
\* the number of columns of the data table, for a statement of any class:
\* HIGGS above 17 columns, FOREST for 9 to 16, WILT for 5 to 8, HABERMAN
\* for 4 or fewer.
C19_CategoryFromTableColumns ==
    (pr_called /\ pr_dataset # -1) =>
        /\ pr_rel.cols > 17 => pr_dataset = HIGGS
        /\ pr_rel.cols \in 9..16 => pr_dataset = FOREST
        /\ pr_rel.cols \in 5..8 => pr_dataset = WILT
        /\ pr_rel.cols <= 4 => pr_dataset = HABERMAN

(***************************************************************************)
(* The moves of a scan of adjust_range                                     *)
(***************************************************************************)
\* error rates le and re are better than minl and minr: both are lower, or
\* one is lower by more than the other is higher
Improves(le, re, minl, minr) ==
    \/ le < minl /\ re < minr
    \/ le < minl /\ minl - le > re - minr
    \/ re < minr /\ minr - re > le - minl

\* the stored samples and the lengths of the two buckets of a scan
StoredPair(b) ==
    <<Stored(b.left, b.left_len), b.left_len,
      Stored(b.right, b.right_len), b.right_len>>

\* the scan p went on to p2 by a move to the buckets moved that gave the
\* error rates le and re: the move was taken if the rates are better, and
\* otherwise the buckets are as before the move
MoveSettled(p, p2, moved, le, re) ==
    IF Improves(le, re, p.min_left_error_rate, p.min_right_error_rate)
    THEN /\ p2.min_left_error_rate = le
         /\ p2.min_right_error_rate = re
         /\ p2.min_left_len = moved.left_len
         /\ p2.min_right_len = moved.right_len
    ELSE /\ p2.min_left_error_rate = p.min_left_error_rate
         /\ p2.min_right_error_rate = p.min_right_error_rate
         /\ p2.min_left_len = p.min_left_len
         /\ p2.min_right_len = p.min_right_len
         /\ StoredPair(p2.b) = StoredPair(p.b)

\* a move that was not taken ends its scan
StopsUnlessBetter(p, p2, pc, pc2) ==
    (p2.min_left_len = p.min_left_len /\ p2.min_right_len = p.min_right_len)
        => pc2 # pc

\* one iteration of the first scan
FirstScanMove ==
    (adj_pc = "run" /\ adj.pc = "phase1" /\ adj' # adj) =>
        LET moved == GrowLeft(adj.p1.b)
        IN  /\ \E le \in get_avg_error(adj_seeded, adj_first,
                                        moved.left, moved.left_len),
                  re \in get_avg_error(adj_seeded, FALSE,
                                        moved.right, moved.right_len) :
                   MoveSettled(adj.p1, adj'.p1, moved, le, re)
            /\ StopsUnlessBetter(adj.p1, adj'.p1, adj.pc, adj'.pc)

\* one iteration of the second scan
SecondScanMove ==
    (adj_pc = "run" /\ adj.pc = "phase2" /\ adj' # adj) =>
        LET moved == GrowRight(adj.p2.b)
        IN  /\ \E le \in get_avg_error(adj_seeded, adj_first,
                                        moved.left, moved.left_len),
                  re \in get_avg_error(adj_seeded, FALSE,
                                        moved.right, moved.right_len) :
                   MoveSettled(adj.p2, adj'.p2, moved, le, re)
            /\ StopsUnlessBetter(adj.p2, adj'.p2, adj.pc, adj'.pc)

\* C20: in either scan of adjust_range a move of one sample is taken
\* exactly when both error rates get lower or one gets lower by more than
\* the other gets higher; a move that is not taken ends the scan, and the
\* sizes, the times and the lengths of both buckets are then what they were
\* before the move.
C20_MoveTakenOrUndone == [][FirstScanMove /\ SecondScanMove]_vars

(***************************************************************************)
(* The early stop of a scan                                                *)
(***************************************************************************)
\* the best so far of a scan is good enough, or one of its buckets is short
StopsOnOwn(p) ==
    \/ p.min_left_error_rate < SmallEnoughRate
    \/ p.min_right_error_rate < SmallEnoughRate
    \/ p.min_left_len < TooSmallLen
    \/ p.min_right_len < TooSmallLen

\* the scan p took a move with the step to p2
MoveTaken(p, p2) == p2.min_left_len # p.min_left_len

\* C21: after a move it has taken, a scan of adjust_range ends early
\* exactly when one of its own best error rates is below 5 percent or one
\* of its own buckets holds fewer than 4 samples, whatever the other scan
\* found; otherwise it goes on until its loop is exhausted.
C21_ScanStopsOnOwnState ==
    [][(adj_pc = "run" /\ adj' # adj) =>
          /\ (adj.pc = "phase1" /\ MoveTaken(adj.p1, adj'.p1)) =>
                (adj'.pc # "phase1" <=>
                    \/ StopsOnOwn(adj'.p1)
                    \/ ~Phase1Continues(adj.def_data1_len, adj.def_data2_len,
                                        adj'.p1.rec))
          /\ (adj.pc = "phase2" /\ MoveTaken(adj.p2, adj'.p2)) =>
                (adj'.pc # "phase2" <=>
                    \/ StopsOnOwn(adj'.p2)
                    \/ ~Phase2Continues(adj.def_data1_len, adj.def_data2_len,
                                        adj'.p2.rec))]_vars

\* the bucket the new size belongs to by the first sizes of mid and far
ChosenRange(b, size) ==
    IF size <= Cell(b.data2, 0)[1] THEN 1
    ELSE IF size <= Cell(b.data3, 0)[1] THEN 2
    ELSE 3

StoredOf(b, range) ==
    IF range = 1 THEN Stored(b.data1, b.data1_len)
    ELSE IF range = 2 THEN Stored(b.data2, b.data2_len)
    ELSE Stored(b.data3, b.data3_len)

LengthOf(b, range) ==
    IF range = 1 THEN b.data1_len
    ELSE IF range = 2 THEN b.data2_len
    ELSE b.data3_len

SizeStored(b, range, size) ==
    \E k \in 1..LengthOf(b, range) : StoredOf(b, range)[k][1] = size

\* the new sample is in the chosen bucket, which is longer by one
StoredAsNew(range) ==
    /\ LengthOf(ad.exit, range) = LengthOf(ad.entry, range) + 1
    /\ LengthOf(ad.exit, range) <= Len(StoredOf(ad.exit, range))
    /\ \E k \in 1..LengthOf(ad.exit, range) :
           StoredOf(ad.exit, range)[k] = <<ad.size, ad.time>>

\* C22: after the insertion of add_new_data, a sample whose size the chosen
\* bucket (near for a size up to the first size of mid, mid for a size up to
\* the first size of far, far otherwise) did not hold is stored in that
\* bucket and the bucket's length is one more than on entry, also when the
\* size is above every size of the bucket.
C22_NewSizeStored ==
    LET range == ChosenRange(ad.entry, ad.size)
    IN  (ad.called /\ ~ad.exit.overflow
            /\ ~SizeStored(ad.entry, range, ad.size)) => StoredAsNew(range)

\* C23: the loop of extract_operation_info ends on every token sequence.
\* Every iteration starts with inhib at 20 or less, and an iteration after
\* which the loop goes on has counted inhib up by one to at most 20: there
\* are at most 21 iterations, also when the token is GROUP_BY or ORDER_BY
\* and i stays where it is.
C23_ScanLoopBounded ==
    [][(ex_pc = "extract" /\ ex' # ex) =>
          /\ ex.inhib <= 20
          /\ ex'.status = "run" =>
                (ex'.inhib = ex.inhib + 1 /\ ex'.inhib <= 20)]_vars

\* the loop was left by the inhib break on a GROUP_BY or ORDER_BY token that
\* is still the current one
C23_Witness ==
    /\ ex_pc = "returned"
    /\ ex.inhib = 21
    /\ ex.query_cluster \in {GROUP_BY, ORDER_BY}
    /\ ex.i < Len(word_array)
    /\ hw_queryhashmap(W(word_array, ex.i), ex.query_cluster) = ex.query_cluster

\* C24: the operation kind hw_ophashmap gives one of the six function names
\* is given to none of the other five: the six names have six pairwise
\* distinct kinds.
C24_SixDistinctKinds ==
    (cl_called /\ cl_name \in OperationNames) =>
        \A other \in OperationNames \ {cl_name}, fallthrough \in OphashFallthrough :
            hw_ophashmap(other, fallthrough) # cl_info.hw_operation

\* C25: when try_relation_open does not find the relation or stat of its
\* file fails, get_data_num reports the error and nothing after it runs for
\* the statement: no page is read, no page count and no row count is
\* produced and the predictor is not reached.
C25_FailedProbeAborts ==
    (pr_probe.outcome # "none" /\ (~pr_rel.open \/ pr_rel.stat # "ok")) =>
        /\ pr_probe.reported
        /\ ~pr_probe.first_page_read
        /\ pr_page_num = 0
        /\ pr_rows = 0
        /\ ~pr_called

\* the coefficients stored for bucket n of class q are the fit of the
\* samples stored in that bucket
FitOfStored(coef, arr, len) == ~coef.freed /\ coef.fit = Stored(arr, len)

\* C26: when add_new_data returns, the coefficient vector stored for each
\* of the three buckets of the class is the fit of exactly the samples the
\* bucket holds, in the lengths and with the boundaries the next prediction
\* reads.
C26_CoefficientsFitStored ==
    [][(worker_pc = "add" /\ worker_pc' = "read") =>
          LET q == query_num
          IN  /\ FitOfStored(exec_coef1'[q], data1'[q], data1_len'[q])
              /\ FitOfStored(exec_coef2'[q], data2'[q], data2_len'[q])
              /\ FitOfStored(exec_coef3'[q], data3'[q], data3_len'[q])]_vars

\* the (size, time) pairs within the first len cells of arr
PairsOf(arr, len) == {Cell(arr, k - 1) : k \in 1..len}

\* C27: adjust_range neither loses nor makes up samples.  However its
\* scans ended, the pairs within the returned lengths of the two buckets it
\* hands out are the pairs of the two buckets it was called on, and none of
\* them is the zero cell written when a bucket is shifted.
C27_SamplesPreserved ==
    adj_pc = "done" =>
        LET given == PairsOf(adj_data1, adj_len1) \cup PairsOf(adj_data2, adj_len2)
            handed == PairsOf(adj_out.min_left, adj_out.data1_len)
                          \cup PairsOf(adj_out.min_right, adj_out.data2_len)
        IN  /\ handed = given
            /\ ZeroCell \notin handed

\* C28: after a call of add_new_data the length stored for each bucket of
\* the class is at most the number of cells of the array that holds the
\* bucket, and the insertion has written no cell past the end of an array.
C28_LengthWithinCapacity ==
    ad.called =>
        /\ ad.exit.data1_len <= Len(ad.exit.data1)
        /\ ad.exit.data2_len <= Len(ad.exit.data2)
        /\ ad.exit.data3_len <= Len(ad.exit.data3)
        /\ ~ad.exit.overflow

\* the sample of the statement being handled: its class and its row count
SampleOfCommand ==
    /\ num_rows = get_data_num(command.table)
    /\ \E fallthrough \in OphashFallthrough :
          query_num = get_query_num(
                          extract_operation_info(command.words, fallthrough).info)

\* no sample was stored since the start-up
AsAfterStartUp ==
    \A q \in QueryClasses :
        /\ Stored(data1[q], data1_len[q]) = init_bucket1(q) \o <<init_bucket2(q)[2]>>
        /\ Stored(data2[q], data2_len[q]) = Tail(init_bucket2(q))
        /\ Stored(data3[q], data3_len[q]) = init_bucket3(q)

\* C29: whenever a command has been read, after a statement that was
\* handled to its end as after one that ended in an error, the flags
\* query_num_recorded, start_time_recorded and num_rows_recorded are all
\* false; so when add_new_data is entered, the class and the row count it
\* is given are those of the statement read last.
C29_FlagsClearAtRead ==
    [][/\ (commands_read' # commands_read) =>
              (~query_num_recorded' /\ ~start_time_recorded' /\ ~num_rows_recorded')
       /\ (worker_pc = "feedback" /\ worker_pc' \in {"add", "crashed"}) =>
              SampleOfCommand]_vars

\* the second command was read after a supported first statement that set
\* the flags and ended in an error: its sample was not stored
C29_Witness ==
    /\ worker_pc = "start"
    /\ commands_read = 2
    /\ ~query_num_recorded /\ ~start_time_recorded /\ ~num_rows_recorded
    /\ report.backend \in {"use CPU", "use HW"}
    /\ AsAfterStartUp

\* C30: once the start-up is done, for every class the sample near ends
\* with is the sample mid starts with and the sample mid ends with is the
\* sample far starts with, in size and in time, whatever samples were added.
C30_SharedBoundarySame ==
    inited =>
        \A q \in QueryClasses :
            /\ Cell(data1[q], data1_len[q] - 1) = Cell(data2[q], 0)
            /\ Cell(data2[q], data2_len[q] - 1) = Cell(data3[q], 0)

=============================================================================
